---- MODULE Spec2Model ----
(***************************************************************************)
(* Model of the boot-hook filtering datasource proxies of cloud-init:      *)
(*   cloudinit/sources/DataSourceBootHookFilter.py       (two-stage sweep) *)
(*   cloudinit/sources/DataSourceBootHookMultiFilter.py  (single lookup)   *)
(* and of their payload filter filter_boothooks; of the discovery export   *)
(* get_datasource_list of both modules; and of the allow-list filter       *)
(*   cloudinit/allow_keys_filter.py                      (AllowKeyFilter). *)
(*                                                                         *)
(* Payloads are sequences of symbols.  "MARK" stands for the literal       *)
(* "#cloud-boothook" (it begins with '#' followed by a word character),    *)
(* "#" for a '#', "w" for a word character [A-Za-z0-9_], "!" for any other *)
(* printable character, "sp" for non-newline whitespace, "nl" for '\n'.    *)
(* A str may also hold "U", a non-ASCII character (U+00E9) whose UTF-8      *)
(* encoding is the two bytes "xC3" "xA9"; a bytes value holds those bytes.  *)
(***************************************************************************)
EXTENDS Integers, Sequences, FiniteSets, TLC

VARIABLES
    \* ---- payload filter, applied as a pure function ----
    payload,    \* the value handed to filter_boothooks
    once,       \* filter_boothooks(payload)
    twice,      \* filter_boothooks(filter_boothooks(payload))
    fpc,        \* "start" | "once" | "twice" | "off" (filter not exercised)
    \* ---- environment of the proxy ----
    variant,                \* "Filter" (two stages) | "Multi" (single lookup)
    datasource_list,        \* sys_cfg['datasource_list']
    registry,               \* what sources.list_sources answers per depends
    behav,                  \* how each backend class answers a probe during
                            \* the call in progress
    sigalrm_handler,        \* process-wide SIGALRM handler
    pending_alarm,          \* process-wide alarm slot
    \* ---- the proxy object ----
    underlying_ds_instance,
    underlying_ds_name,
    uds_userdata_raw,       \* userdata_raw attribute of the stored instance
    \* ---- the capability call in progress ----
    pc,                     \* position of the call
    cap,                    \* the capability method called
    stage,                  \* index into datasource_depends
    available_sources_map,  \* ordered dict as a sequence of <<name, class>>
    idx,                    \* position of the candidate loop
    found,                  \* return value of _try_detect_with_depends
    ret,                    \* what the last capability call returned
    sweepLog,               \* probes made so far by the call in progress
    attempt_failed,         \* some earlier call ended a sweep without a backend
    fetch,                  \* how uds.get_userdata_raw() ended in the call:
                            \* "none" (not called) | "returns" | "raises"
    fetched,                \* what the first get_userdata_raw call that got
                            \* the backend's payload returned (NoRet before)
    \* ---- discovery export, applied as a pure function ----
    depends,                \* the dependency list cloud-init asks with
    exported,               \* get_datasource_list(depends)
    xpc,                    \* "start" | "done" | "off" (not exercised)
    \* ---- AllowKeyFilter, one method applied as a pure function ----
    base_cfg,               \* self._base_cfg
    raw_cfg,                \* argument of filter and of _do_filter
    allow_keys,             \* argument of _do_filter
    cfg_key,                \* arguments of _gen_module_cfg_filter
    cfg_value,
    akpc,                   \* the method to apply, "done" after it, "off"
    filtered,               \* what the method returned
    \* ---- the config modules (cc_*.handle) ----
    cloud_cfg,              \* cloud.cfg, the merged system configuration
    cfg,                    \* the user-data configuration handle edits
    cfg_before,             \* cfg as it was handed to handle
    mpc,                    \* the module to run, "off"
    mresult,                \* "pending", "returned" or the exception raised
    \* ---- BootHookPartHandler ----
    datasource,             \* the datasource the handler was built with
    instance_id,            \* self.instance_id
    ctype,                  \* arguments of handle_part
    filename,
    part,                   \* the payload argument of handle_part
    hlog,                   \* the util.write_file and subp.subp calls made
    hresult                 \* "pending", "returned" or the exception raised

fvars == <<payload, once, twice, fpc>>

envvars == <<variant, datasource_list, registry, behav,
             sigalrm_handler, pending_alarm>>

objvars == <<underlying_ds_instance, underlying_ds_name, uds_userdata_raw>>

callvars == <<pc, cap, stage, available_sources_map, idx, found, ret, sweepLog,
              attempt_failed, fetch, fetched>>

dsvars == <<envvars, objvars, callvars>>

xvars == <<depends, exported, xpc>>

akvars == <<base_cfg, raw_cfg, allow_keys, cfg_key, cfg_value, akpc, filtered>>

mvars == <<cloud_cfg, cfg, cfg_before, mpc, mresult>>

hvars == <<datasource, instance_id, ctype, filename, part, hlog, hresult>>

restvars == <<mvars, hvars>>

othervars == <<xvars, akvars, restvars>>

vars == <<fvars, dsvars, othervars>>

(***************************************************************************)
(* Bounds                                                                  *)
(***************************************************************************)
MaxLen == 5
MaxListLen == 3

(***************************************************************************)
(* Python values                                                           *)
(***************************************************************************)
Ascii == {"MARK", "#", "w", "!", "sp", "nl"}
\* the characters of a str, the bytes of a bytes value
Alphabet == Ascii \cup {"U"}
ByteAlphabet == Ascii \cup {"xC3", "xA9"}
Whitespace == {"sp", "nl"}

None == [type |-> "NoneType", data |-> <<>>]
Str(s) == [type |-> "str", data |-> s]
Bytes(s) == [type |-> "bytes", data |-> s]

SeqsUpTo(S, n) == UNION {[1..k -> S] : k \in 0..n}

\* `not userdata_raw`: None and the empty str / bytes are falsy
Falsy(v) == v.type = "NoneType" \/ v.data = <<>>

\* str.encode('utf-8'): an ASCII character is one byte of the same value,
\* U+00E9 becomes two bytes
RECURSIVE encode(_)
encode(s) ==
    IF s = <<>> THEN <<>>
    ELSE (IF Head(s) = "U" THEN <<"xC3", "xA9">> ELSE <<Head(s)>>)
         \o encode(Tail(s))

\* bytes.decode('utf-8'); a byte sequence that is no UTF-8 raises
\* UnicodeDecodeError, written as that one symbol
RECURSIVE decode(_)
decode(b) ==
    IF b = <<>> THEN <<>>
    ELSE IF Head(b) \in Ascii
    THEN LET rest == decode(Tail(b))
         IN  IF rest = <<"UnicodeDecodeError">> THEN rest
             ELSE <<Head(b)>> \o rest
    ELSE IF Head(b) = "xC3" /\ Len(b) >= 2 /\ b[2] = "xA9"
    THEN LET rest == decode(SubSeq(b, 3, Len(b)))
         IN  IF rest = <<"UnicodeDecodeError">> THEN rest
             ELSE <<"U">> \o rest
    ELSE <<"UnicodeDecodeError">>

(***************************************************************************)
(* BOOTHOK_RE = rb'^#cloud-boothook.*?(?=^#\w|\Z)', MULTILINE | DOTALL     *)
(***************************************************************************)
\* '^' under re.MULTILINE: start of input or just after a newline
AtLineStart(b, i) == i = 1 \/ b[i - 1] = "nl"

\* rb'^#cloud-boothook' matches at position i
MarkerAt(b, i) == i <= Len(b) /\ AtLineStart(b, i) /\ b[i] = "MARK"

\* the lookahead (?=^#\w|\Z) holds at position j
LookaheadNoWord(b, j) ==
    \/ j = Len(b) + 1
    \/ j <= Len(b) /\ AtLineStart(b, j) /\ b[j] \in {"MARK", "#"}

Lookahead(b, j) ==
    \/ j = Len(b) + 1
    \/ /\ j <= Len(b)
       /\ AtLineStart(b, j)
       /\ \/ b[j] = "MARK"
          \/ b[j] = "#" /\ j + 1 <= Len(b) /\ b[j + 1] = "w"

\* the lazy .*? : the first position at or after j where the lookahead holds
RECURSIVE MatchEnd(_, _)
MatchEnd(b, j) == IF Lookahead(b, j) THEN j ELSE MatchEnd(b, j + 1)

\* BOOTHOK_RE.sub(b'', b), scanning from position i
RECURSIVE ReSub(_, _)
ReSub(b, i) ==
    IF i > Len(b) THEN <<>>
    ELSE IF MarkerAt(b, i) THEN ReSub(b, MatchEnd(b, i + 1))
    ELSE <<b[i]>> \o ReSub(b, i + 1)

\* the search without '^': the marker anywhere in a line
ReSearchAnywhere(b) == \E i \in 1..Len(b) : b[i] = "MARK"

\* re.search(rb'^#cloud-boothook', b, re.MULTILINE)
ReSearch(b) == \E i \in 1..Len(b) : MarkerAt(b, i)

RECURSIVE LStrip(_)
LStrip(b) == IF b # <<>> /\ Head(b) \in Whitespace THEN LStrip(Tail(b)) ELSE b

RECURSIVE RStrip(_)
RStrip(b) ==
    IF b # <<>> /\ b[Len(b)] \in Whitespace
    THEN RStrip(SubSeq(b, 1, Len(b) - 1)) ELSE b

\* bytes.strip()
Strip(b) == RStrip(LStrip(b))

filter_boothooks(userdata_raw) ==
    IF Falsy(userdata_raw) THEN userdata_raw
    ELSE IF userdata_raw.type \notin {"str", "bytes"} THEN userdata_raw
    ELSE LET userdata_bytes ==
                 IF userdata_raw.type = "str" THEN encode(userdata_raw.data)
                 ELSE userdata_raw.data
         IN  IF ~ReSearch(userdata_bytes) THEN userdata_raw
             ELSE LET filtered_bytes == Strip(ReSub(userdata_bytes, 1))
                  IN  IF userdata_raw.type = "str"
                      THEN Str(decode(filtered_bytes))
                      ELSE Bytes(filtered_bytes)

(***************************************************************************)
(* The proxies' world: configured names, backend classes, the registry     *)
(***************************************************************************)
DEP_FILESYSTEM == "FILESYSTEM"
DEP_NETWORK == "NETWORK"

datasource_depends_network_first ==
    << <<DEP_FILESYSTEM, DEP_NETWORK>>, <<DEP_FILESYSTEM>> >>

\* the dependency lists the sweep asks the registry about, in stage order
datasource_depends ==
    << <<DEP_FILESYSTEM>>, <<DEP_FILESYSTEM, DEP_NETWORK>> >>

Variants == {"Filter", "Multi"}

\* a class __name__ is a sequence of tokens, "DataSource" being one of them
ProxyClass(v) ==
    IF v = "Filter" THEN <<"DataSource", "BootHookFilter">>
    ELSE <<"DataSource", "BootHookMultiFilter">>

BackendClasses == { <<"DataSource", "A">>, <<"DataSource", "B">> }

NoClass == <<>>
NoName == "None"
NoInstance == [kls |-> NoClass, serial |-> 0]

\* self.__class__.__name__[len("DataSource"):]
MyNameOf(v) == Tail(ProxyClass(v))[1]
my_name == MyNameOf(variant)

\* name[len("DataSource"):] if name.startswith("DataSource") else name
map_name(name) == IF Head(name) = "DataSource" THEN Tail(name)[1] ELSE Head(name)

ConfigNames(v) == {"A", "B", MyNameOf(v)}

NoDup(l) == \A i, j \in 1..Len(l) : l[i] = l[j] => i = j

Contains(l, n) == \E i \in 1..Len(l) : l[i] = n

\* the configured list names backends, any of them possibly more than once,
\* and the running proxy.  The proxies read the list only to build
\* detection_list_names, which drops the proxy's own name wherever it stands:
\* it is put last here.
ConfigLists(v) ==
    {Append(l, MyNameOf(v)) :
        l \in SeqsUpTo(ConfigNames(v) \ {MyNameOf(v)}, MaxListLen - 1)}

\* list_sources raising instead of answering
ListingFails == << <<"raise">> >>

RegistryAnswers ==
    {l \in SeqsUpTo(BackendClasses, Cardinality(BackendClasses)) : NoDup(l)}
    \cup {ListingFails}

DependsLists == {datasource_depends[i] : i \in 1..Len(datasource_depends)}

Reverse(l) == [i \in 1..Len(l) |-> l[Len(l) + 1 - i]]

detection_list_names_reversed ==
    LET NotMe(n) == n # my_name IN Reverse(SelectSeq(datasource_list, NotMe))

\* [ds_name for ds_name in original_ds_list if ds_name != my_name]
detection_list_names ==
    LET NotMe(n) == n # my_name IN SelectSeq(datasource_list, NotMe)

\* sources.list_sources(detection_list_names, depends_param, pkg_list_param):
\* the classes the host's registry returns, in the order it returns them
list_sources(names, depends_param) == registry[depends_param]

\* available_sources_map[map_name] = kls on an insertion-ordered dict
MapPut(m, n, k) ==
    IF \E i \in 1..Len(m) : m[i][1] = n
    THEN [i \in 1..Len(m) |-> IF m[i][1] = n THEN <<n, k>> ELSE m[i]]
    ELSE Append(m, <<n, k>>)

RECURSIVE BuildMap(_, _)
BuildMap(items, m) ==
    IF items = <<>> THEN m
    ELSE BuildMap(Tail(items), MapPut(m, map_name(Head(items)), Head(items)))

\* the first class of the map whatever the name asked for
MapGetAny(m, n) == IF m = <<>> THEN NoClass ELSE m[1][2]

\* available_sources_map.get(ds_name)
MapGet(m, n) ==
    IF \E i \in 1..Len(m) : m[i][1] = n
    THEN m[CHOOSE i \in 1..Len(m) : m[i][1] = n][2]
    ELSE NoClass

(***************************************************************************)
(* One probe: arm the alarm, construct the candidate, call get_data,       *)
(* disarm.  A backend class answers according to behav:                    *)
(*   "ready"  get_data returns True well within the deadline               *)
(*   "false"  get_data returns False                                       *)
(*   "raises" the constructor or get_data raises                           *)
(*   "hang"   the constructor or get_data does not return; the alarm fires *)
(*            inside it                                                    *)
(*   "slow"   the backend answers just as the deadline expires; the alarm  *)
(*            fires at some instant between signal.alarm(10) and           *)
(*            signal.alarm(0)                                              *)
(* A run of the probe records the path taken, whether the constructor      *)
(* returned, the final check_success, whether an exception leaves the      *)
(* probe, and whether signal.signal(SIGALRM, old_handler) was executed.    *)
(***************************************************************************)
Behav == {"ready", "false", "raises", "hang", "slow"}

\* no call is in progress: nothing is being asked of the backends
NoBehav == [k \in BackendClasses |-> "idle"]

Run(path, constructed, success, escapes, restored) ==
    [path |-> path, constructed |-> constructed, check_success |-> success,
     escapes |-> escapes, restored |-> restored]

\* a timed-out probe taken for a success
HangRunsStored ==
    {Run("ctor_timeout", FALSE, TRUE, FALSE, TRUE),
     Run("get_data_timeout", TRUE, TRUE, FALSE, TRUE)}

\* the alarm fires inside the constructor or inside get_data: the handler
\* raises DatasourceTimeoutError there and the except clause catches it
HangRuns ==
    {Run("ctor_timeout", FALSE, FALSE, FALSE, TRUE),
     Run("get_data_timeout", TRUE, FALSE, FALSE, TRUE)}

\* check_success set before the constructor and get_data are called
RaisesRunsStored ==
    {Run("ctor_raises", FALSE, TRUE, FALSE, TRUE),
     Run("get_data_raises", TRUE, TRUE, FALSE, TRUE)}

\* the constructor or get_data raises: an except clause logs it
RaisesRuns ==
    {Run("ctor_raises", FALSE, FALSE, FALSE, TRUE),
     Run("get_data_raises", TRUE, FALSE, FALSE, TRUE)}

\* "raises" stands for DataSourceNotFoundException and for any other
\* Exception: the two except clauses differ in what they log only
ProbeRuns(b) ==
    CASE b = "ready" ->
           {Run("get_data_true", TRUE, TRUE, FALSE, TRUE)}
      [] b = "false" ->
           {Run("get_data_false", TRUE, FALSE, FALSE, TRUE)}
      [] b = "raises" -> RaisesRuns
      [] b = "hang" -> HangRuns
      [] b = "slow" ->
           {\* the alarm fires before the try block is entered
            Run("alarm_before_try", FALSE, FALSE, TRUE, FALSE),
            \* get_data returned True, the alarm fires before check_success = True
            Run("alarm_before_flag", TRUE, FALSE, FALSE, TRUE),
            \* the alarm fires after check_success = True, still inside try
            Run("alarm_after_flag", TRUE, TRUE, FALSE, TRUE),
            \* the alarm fires while an except clause is logging
            Run("alarm_in_except", TRUE, FALSE, TRUE, TRUE),
            \* the alarm fires in the finally block before signal.alarm(0)
            Run("alarm_in_finally", TRUE, FALSE, TRUE, FALSE)}

(***************************************************************************)
(* Capability calls and the values they return                             *)
(***************************************************************************)
PyTrue == [type |-> "bool", data |-> <<"True">>]
PyFalse == [type |-> "bool", data |-> <<"False">>]
PyBool(b) == IF b THEN PyTrue ELSE PyFalse
PyLit(s) == [type |-> "str", data |-> <<s>>]
PyEmptyList == [type |-> "list", data |-> <<>>]
Raised == [type |-> "DatasourceTimeoutError", data |-> <<>>]
NoRet == [type |-> "pending", data |-> <<>>]

Flags == {"True", "False"}

Call0(name) == [name |-> name, fqdn |-> "False", metadata_only |-> "False"]

Caps ==
    {Call0(n) : n \in {"get_data", "get_userdata_raw", "get_instance_id",
                       "get_public_ssh_keys", "get_locale", "platform",
                       "subplatform"}}
    \cup {[name |-> "get_hostname", fqdn |-> f, metadata_only |-> m] :
             f \in Flags, m \in Flags}

NoCap == Call0("none")

\* what a backend instance of class k answers to an accessor
BackendAnswer(k, c) ==
    [type |-> "backend", data |-> <<map_name(k), c.name, c.fqdn, c.metadata_only>>]

\* DataSource.get_hostname(fqdn=fqdn, metadata_only=metadata_only) of the base
BaseHostname(c) ==
    [type |-> "base", data |-> <<"get_hostname", c.fqdn, c.metadata_only>>]

\* the payload a backend holds in userdata_raw once its get_data succeeded
BackendPayloads ==
    {None,
     Str(<<"sp", "MARK", "nl", "MARK", "nl", "#", "w">>)}

\* whether instances of class k have a userdata_raw attribute (the instances
\* of a class that leaves DataSource.__init__ out have none); for a class
\* without it uds_userdata_raw is what its get_userdata_raw() returns
ExposesUserdataRaw(k) == k = <<"DataSource", "A">>

IsNoneAlways(x) == TRUE

\* `self.underlying_ds_instance is None` / `is not None`
IsNone(x) == x = NoInstance

\* `if uds` / `if not uds` on what _get_underlying_ds returned
Truthy(uds) == uds # NoInstance

\* uds.get_hostname() called without the caller's flags
HostnameArgsDefault(c) == Call0("get_hostname")

\* uds.get_hostname(fqdn=fqdn, metadata_only=metadata_only)
HostnameArgs(c) == c

\* the value a capability method returns once uds is known (no fetch involved)
Delegated(c, uds) ==
    CASE c.name = "get_data" -> PyBool(~IsNone(uds))
      [] c.name = "platform" ->
           IF Truthy(uds) THEN BackendAnswer(uds.kls, c) ELSE PyLit("proxy")
      [] c.name = "subplatform" ->
           IF Truthy(uds) THEN BackendAnswer(uds.kls, c)
           ELSE PyLit("filtered-proxy")
      [] c.name = "get_instance_id" ->
           IF Truthy(uds) THEN BackendAnswer(uds.kls, c)
           ELSE PyLit("iid-proxy-unknown")
      [] c.name = "get_public_ssh_keys" ->
           IF Truthy(uds) THEN BackendAnswer(uds.kls, c) ELSE PyEmptyList
      [] c.name = "get_hostname" ->
           IF Truthy(uds) THEN BackendAnswer(uds.kls, HostnameArgs(c))
           ELSE BaseHostname(c)
      [] c.name = "get_locale" ->
           IF Truthy(uds) THEN BackendAnswer(uds.kls, c)
           ELSE PyLit("en_US.UTF-8")

(***************************************************************************)
(* The proxy as a state machine                                            *)
(***************************************************************************)
(***************************************************************************)
(* Configuration values (parsed YAML/JSON): None, str, list, dict.  Every  *)
(* value is a record of one shape: atom is the text of a str, kids the     *)
(* items of a list or the values of a dict, keys the keys of a dict in     *)
(* insertion order.                                                        *)
(***************************************************************************)
CfgNone == [tag |-> "NoneType", atom |-> "", keys |-> <<>>, kids |-> <<>>]

CfgStr(a) == [tag |-> "str", atom |-> a, keys |-> <<>>, kids |-> <<>>]

CfgList(items) == [tag |-> "list", atom |-> "", keys |-> <<>>, kids |-> items]

CfgDict(ks, vs) == [tag |-> "dict", atom |-> "", keys |-> ks, kids |-> vs]

\* an exception leaving the method
CfgRaised(e) == [tag |-> "raise", atom |-> e, keys |-> <<>>, kids |-> <<>>]

\* the method has not returned yet
CfgPending == [tag |-> "pending", atom |-> "", keys |-> <<>>, kids |-> <<>>]

\* get_datasource_list is not being exercised
ExportOff ==
    /\ depends = <<>>
    /\ exported = <<>>
    /\ xpc = "off"

\* no AllowKeyFilter is involved
AllowOff ==
    /\ base_cfg = CfgNone
    /\ raw_cfg = CfgNone
    /\ allow_keys = CfgNone
    /\ cfg_key = ""
    /\ cfg_value = CfgNone
    /\ akpc = "off"
    /\ filtered = CfgPending

\* no config module is run
ModulesOff ==
    /\ cloud_cfg = CfgNone
    /\ cfg = CfgNone
    /\ cfg_before = CfgNone
    /\ mpc = "off"
    /\ mresult = "off"

\* CfgBool(TRUE) is True, CfgBool(FALSE) is False
CfgBool(b) ==
    [tag |-> "bool", atom |-> IF b THEN "True" ELSE "False", keys |-> <<>>,
     kids |-> <<>>]

\* datasource is None
NoDatasource ==
    [present |-> FALSE, has_sys_cfg |-> FALSE, sys_cfg |-> CfgNone,
     get_instance_id |-> CfgNone]

\* no BootHookPartHandler is involved
HandlerOff ==
    /\ datasource = NoDatasource
    /\ instance_id = CfgNone
    /\ ctype = ""
    /\ filename = <<>>
    /\ part = <<>>
    /\ hlog = <<>>
    /\ hresult = "off"

RestOff == ModulesOff /\ HandlerOff

FilterOff ==
    /\ payload = None
    /\ once = None
    /\ twice = None
    /\ fpc = "off"

Init ==
    /\ variant \in Variants
    /\ datasource_list \in ConfigLists(variant)
    /\ registry \in [DependsLists -> RegistryAnswers]
    \* the single-lookup proxy never asks for [DEP_FILESYSTEM] alone
    /\ variant = "Multi" => registry[<<DEP_FILESYSTEM>>] = <<>>
    /\ behav = NoBehav
    /\ sigalrm_handler = "outer"
    \* the caller may have a deadline of its own running
    /\ pending_alarm \in {"none", "outer"}
    /\ underlying_ds_instance = NoInstance
    /\ underlying_ds_name = NoName
    /\ uds_userdata_raw = None
    /\ pc = "idle"
    /\ cap = NoCap
    /\ stage = 0
    /\ available_sources_map = <<>>
    /\ idx = 0
    /\ found = FALSE
    /\ ret = NoRet
    /\ sweepLog = <<>>
    /\ attempt_failed = FALSE
    /\ fetch = "none"
    /\ fetched = NoRet
    /\ FilterOff
    /\ ExportOff
    /\ AllowOff
    /\ RestOff

\* a failed attempt remembered, detection never run again
ShouldDetectOnce == IsNone(underlying_ds_instance) /\ ~attempt_failed

\* _get_underlying_ds: detect only if no backend has been found yet
ShouldDetect == IsNone(underlying_ds_instance)

\* a capability method is entered and calls _get_underlying_ds; every method
\* starts this way, so which one it is is drawn where it first matters
\* (Delegate).  b is how the backends answer while this call runs.
Call(b) ==
    /\ pc = "idle"
    /\ behav' = b
    /\ cap' = NoCap
    /\ ret' = NoRet
    /\ pc' = IF ShouldDetect THEN "find" ELSE "delegate"
    /\ fetch' = "none"
    /\ UNCHANGED <<fvars, othervars, fetched, variant, datasource_list, registry, sigalrm_handler,
                   pending_alarm, objvars, stage, available_sources_map, idx,
                   found, sweepLog, attempt_failed>>

\* DataSourceBootHookFilter._find_and_set_underlying_ds, up to its first attempt
FindAndSet ==
    /\ pc = "find"
    /\ variant = "Filter"
    /\ IF ~IsNone(underlying_ds_instance)
       THEN pc' = "delegate" /\ UNCHANGED <<stage, sweepLog>>
       ELSE pc' = "try_detect" /\ stage' = 1 /\ sweepLog' = <<>>
    /\ UNCHANGED <<fvars, othervars, fetched, fetch, envvars, objvars, cap, available_sources_map, idx,
                   found, ret, attempt_failed>>

\* _try_detect_with_depends up to the candidate loop
TryDetectResolve ==
    /\ pc = "try_detect"
    /\ LET depends_param == datasource_depends[stage]
           avail_sources_items == list_sources(detection_list_names, depends_param)
           m == BuildMap(avail_sources_items, <<>>)
       IN  IF \/ detection_list_names = <<>>
              \/ avail_sources_items = ListingFails
              \/ m = <<>>
           THEN /\ found' = FALSE
                /\ pc' = "stage_ret"
                /\ available_sources_map' = <<>>
                /\ idx' = 0
           ELSE /\ available_sources_map' = m
                /\ idx' = 1
                /\ pc' = "loop"
                /\ UNCHANGED found
    /\ UNCHANGED <<fvars, othervars, fetched, fetch, envvars, objvars, cap, stage, ret, sweepLog,
                   attempt_failed>>

\* what one probe leaves behind whatever its result: the log entry, the alarm
\* slot emptied by signal.alarm, the handler restored or not
ProbeTrace(ds_name, ds_kls, run) ==
    /\ sweepLog' = Append(sweepLog, [name |-> ds_name, kls |-> ds_kls,
                                     stage |-> stage, path |-> run.path])
    /\ pending_alarm' = "none"
    /\ sigalrm_handler' = IF run.restored THEN sigalrm_handler
                          ELSE "_handle_timeout"
    /\ UNCHANGED <<variant, datasource_list, registry, behav>>

\* self.underlying_ds_instance = candidate_ds; self.underlying_ds_name = ds_name
Store(ds_name, ds_kls) ==
    /\ underlying_ds_instance' = [kls |-> ds_kls, serial |-> Len(sweepLog) + 1]
    /\ underlying_ds_name' = ds_name
    /\ uds_userdata_raw' \in BackendPayloads

\* for ds_name in ...: the loop moves on to the next entry
NextIndex(i) == i + 1

\* the candidate loop of _try_detect_with_depends: a configured name the
\* registry did not return for this stage is skipped
SkipCandidate ==
    /\ pc = "loop"
    /\ variant = "Filter"
    /\ idx <= Len(detection_list_names)
    /\ MapGet(available_sources_map, detection_list_names[idx]) = NoClass
    /\ idx' = NextIndex(idx)
    /\ UNCHANGED <<fvars, othervars, fetched, fetch, envvars, objvars, pc, cap, stage,
                   available_sources_map, found, ret, sweepLog, attempt_failed>>

Probe ==
    /\ pc = "loop"
    /\ variant = "Filter"
    /\ idx <= Len(detection_list_names)
    /\ LET ds_name == detection_list_names[idx]
           ds_kls == MapGet(available_sources_map, ds_name)
       IN  /\ ds_kls # NoClass
           /\ \E run \in ProbeRuns(behav[ds_kls]) :
                /\ ProbeTrace(ds_name, ds_kls, run)
                /\ IF run.escapes
                   THEN pc' = "raise" /\ UNCHANGED <<objvars, idx, found>>
                   ELSE IF run.check_success
                   THEN /\ Store(ds_name, ds_kls)
                        /\ found' = TRUE
                        /\ pc' = "stage_ret"
                        /\ UNCHANGED idx
                   ELSE /\ idx' = NextIndex(idx)
                        /\ UNCHANGED <<objvars, pc, found>>
    /\ UNCHANGED <<fvars, othervars, fetched, fetch, cap, stage, available_sources_map, ret,
                   attempt_failed>>

\* the loop is exhausted: _try_detect_with_depends returns False
LoopDone ==
    /\ pc = "loop"
    /\ variant = "Filter"
    /\ idx > Len(detection_list_names)
    /\ found' = FALSE
    /\ pc' = "stage_ret"
    /\ UNCHANGED <<fvars, othervars, fetched, fetch, envvars, objvars, cap, stage, available_sources_map,
                   idx, ret, sweepLog, attempt_failed>>

\* the result of an attempt is ignored
StageSucceededNever(result) == FALSE

\* if self._try_detect_with_depends(...): return True
StageSucceeded(result) == result

\* the first attempt is the only one
NoMoreStages(st) == FALSE

\* a further attempt follows the one that returned False
MoreStages(st) == st < Len(datasource_depends)

\* _find_and_set_underlying_ds after an attempt returned
StageReturn ==
    /\ pc = "stage_ret"
    /\ IF StageSucceeded(found)
       THEN pc' = "delegate" /\ UNCHANGED <<objvars, stage, attempt_failed>>
       ELSE IF MoreStages(stage)
       THEN /\ pc' = "try_detect"
            /\ stage' = stage + 1
            /\ UNCHANGED <<objvars, attempt_failed>>
       ELSE /\ underlying_ds_instance' = NoInstance
            /\ underlying_ds_name' = NoName
            /\ pc' = "delegate"
            /\ attempt_failed' = TRUE
            /\ UNCHANGED <<uds_userdata_raw, stage>>
    /\ UNCHANGED <<fvars, othervars, fetched, fetch, envvars, cap, available_sources_map, idx, found, ret,
                   sweepLog>>

\* DataSourceBootHookMultiFilter._find_and_set_underlying_ds up to its loop
MultiFindAndSet ==
    /\ pc = "find"
    /\ variant = "Multi"
    /\ IF ~IsNone(underlying_ds_instance)
       THEN pc' = "delegate"
            /\ UNCHANGED <<stage, sweepLog, available_sources_map, idx,
                           attempt_failed>>
       ELSE LET depends_param == <<DEP_FILESYSTEM, DEP_NETWORK>>
                avail_sources_items ==
                    list_sources(detection_list_names, depends_param)
            IN  /\ sweepLog' = <<>>
                /\ stage' = Len(datasource_depends)
                /\ IF \/ detection_list_names = <<>>
                      \/ avail_sources_items = ListingFails
                   THEN pc' = "delegate"
                        /\ attempt_failed' = TRUE
                        /\ UNCHANGED <<available_sources_map, idx>>
                   ELSE /\ available_sources_map' =
                               BuildMap(avail_sources_items, <<>>)
                        /\ idx' = 1
                        /\ pc' = "loop"
                        /\ UNCHANGED attempt_failed
    /\ UNCHANGED <<fvars, othervars, fetched, fetch, envvars, objvars, cap, found, ret>>

\* for ds_name, ds_kls in available_sources_map.items()
MultiProbe ==
    /\ pc = "loop"
    /\ variant = "Multi"
    /\ idx <= Len(available_sources_map)
    /\ LET ds_name == available_sources_map[idx][1]
           ds_kls == available_sources_map[idx][2]
       IN  \E run \in ProbeRuns(behav[ds_kls]) :
                /\ ProbeTrace(ds_name, ds_kls, run)
                /\ IF run.escapes
                   THEN pc' = "raise" /\ UNCHANGED <<objvars, idx>>
                   ELSE IF run.check_success
                   THEN /\ Store(ds_name, ds_kls)
                        /\ pc' = "delegate"
                        /\ UNCHANGED idx
                   ELSE /\ idx' = NextIndex(idx)
                        /\ UNCHANGED <<objvars, pc>>
    /\ UNCHANGED <<fvars, othervars, fetched, fetch, cap, stage, available_sources_map, found, ret,
                   attempt_failed>>

MultiLoopDone ==
    /\ pc = "loop"
    /\ variant = "Multi"
    /\ idx > Len(available_sources_map)
    /\ pc' = "delegate"
    /\ attempt_failed' = TRUE
    /\ UNCHANGED <<fvars, othervars, fetched, fetch, envvars, objvars, cap, stage, available_sources_map,
                   idx, found, ret, sweepLog>>

\* the frame of the call is left: its locals are gone
Returned ==
    /\ pc' = "idle"
    /\ behav' = NoBehav
    /\ stage' = 0
    /\ available_sources_map' = <<>>
    /\ idx' = 0
    /\ found' = FALSE
    /\ sweepLog' = <<>>

\* the except clause around uds.get_userdata_raw() lets the error through
FetchErrorPropagates == [type |-> "Exception", data |-> <<>>]

\* except Exception around uds.get_userdata_raw(): log and return None
FetchErrorResult == None

\* the cache of the backend is left as it was
WriteBackSkipped(uds, filtered_userdata, current) == current

\* if hasattr(uds, 'userdata_raw'): uds.userdata_raw = filtered_userdata
WriteBack(uds, filtered_userdata, current) ==
    IF ExposesUserdataRaw(uds.kls) THEN filtered_userdata ELSE current

\* the rest of capability method c, uds = self._get_underlying_ds() known
Delegate(c) ==
    /\ pc = "delegate"
    /\ cap' = c
    /\ Returned
    /\ LET uds == underlying_ds_instance
       IN  IF c.name # "get_userdata_raw"
           THEN /\ ret' = Delegated(c, uds)
                /\ UNCHANGED <<uds_userdata_raw, fetch, fetched>>
           ELSE IF ~Truthy(uds)
           THEN ret' = None /\ UNCHANGED <<uds_userdata_raw, fetch, fetched>>
           ELSE \E outcome \in {"returns", "raises"} :
                  LET original_userdata == uds_userdata_raw
                      filtered_userdata == filter_boothooks(original_userdata)
                  IN  /\ fetch' = outcome
                      /\ IF outcome = "raises"
                         THEN /\ ret' = FetchErrorResult
                              /\ UNCHANGED <<uds_userdata_raw, fetched>>
                         ELSE IF original_userdata = None
                         THEN /\ ret' = None
                              /\ fetched' = IF fetched = NoRet THEN None
                                            ELSE fetched
                              /\ UNCHANGED uds_userdata_raw
                         ELSE /\ fetched' = IF fetched = NoRet
                                            THEN filtered_userdata ELSE fetched
                              /\ uds_userdata_raw' =
                                     WriteBack(uds, filtered_userdata,
                                               uds_userdata_raw)
                              /\ ret' = filtered_userdata
    /\ UNCHANGED <<fvars, othervars, variant, datasource_list, registry, sigalrm_handler,
                   pending_alarm, underlying_ds_instance, underlying_ds_name,
                   attempt_failed>>

\* an exception that left the probe reaches the caller of the capability method
Propagate ==
    /\ pc = "raise"
    /\ ret' = Raised
    /\ attempt_failed' = TRUE
    /\ Returned
    /\ UNCHANGED <<fvars, othervars, fetched, fetch, variant, datasource_list, registry, sigalrm_handler,
                   pending_alarm, objvars, cap>>

Next ==
    \/ \E b \in [BackendClasses -> Behav] : Call(b)
    \/ FindAndSet
    \/ TryDetectResolve
    \/ SkipCandidate
    \/ Probe
    \/ LoopDone
    \/ StageReturn
    \/ MultiFindAndSet
    \/ MultiProbe
    \/ MultiLoopDone
    \/ \E c \in Caps : Delegate(c)
    \/ Propagate

Spec == Init /\ [][Next]_vars

(***************************************************************************)
(* The filter as a pure function: every str and bytes payload of up to     *)
(* MaxLen symbols, filtered once and then once more.                       *)
(***************************************************************************)
\* no proxy is constructed: its variables rest at their constructed values
ProxyRest ==
    /\ datasource_list = <<>>
    /\ registry = [d \in DependsLists |-> <<>>]
    /\ behav = NoBehav
    /\ sigalrm_handler = "outer"
    /\ pending_alarm = "none"
    /\ underlying_ds_instance = NoInstance
    /\ underlying_ds_name = NoName
    /\ uds_userdata_raw = None
    /\ pc = "off"
    /\ cap = NoCap
    /\ stage = 0
    /\ available_sources_map = <<>>
    /\ idx = 0
    /\ found = FALSE
    /\ ret = NoRet
    /\ sweepLog = <<>>
    /\ attempt_failed = FALSE
    /\ fetch = "none"
    /\ fetched = NoRet

ProxyOff ==
    /\ variant = "Filter"
    /\ ProxyRest

\* userdata_raw is None, a str or a bytes value of up to MaxLen symbols
FilterInit ==
    /\ \/ payload = None
       \/ \E k \in 0..MaxLen : \E s \in [1..k -> Alphabet] : payload = Str(s)
       \/ \E k \in 0..MaxLen :
             \E s \in [1..k -> ByteAlphabet] : payload = Bytes(s)
    /\ once = None
    /\ twice = None
    /\ fpc = "start"
    /\ ProxyOff
    /\ ExportOff
    /\ AllowOff
    /\ RestOff

FilterOnce ==
    /\ fpc = "start"
    /\ once' = filter_boothooks(payload)
    /\ fpc' = "once"
    /\ UNCHANGED <<payload, twice, dsvars, othervars>>

FilterTwice ==
    /\ fpc = "once"
    /\ twice' = filter_boothooks(once)
    /\ fpc' = "twice"
    /\ UNCHANGED <<payload, once, dsvars, othervars>>

FilterNext == FilterOnce \/ FilterTwice

FilterSpec == FilterInit /\ [][FilterNext]_vars

(***************************************************************************)
(* The discovery export of both modules as a pure function of depends.     *)
(***************************************************************************)
MaxDepends == 4

\* the proxy is exported for a dependency list that names the network only
get_datasource_list_network_only(v, depends_param) ==
    IF Contains(depends_param, DEP_NETWORK) THEN <<ProxyClass(v)>> ELSE <<>>

\* def get_datasource_list(depends): return [DataSourceBootHook...Filter]
get_datasource_list(v, depends_param) == <<ProxyClass(v)>>

\* cloud-init asks the module of either proxy, with any dependency list
ExportInit ==
    /\ variant \in Variants
    /\ \E k \in 0..MaxDepends :
          depends \in [1..k -> {DEP_FILESYSTEM, DEP_NETWORK}]
    /\ exported = <<>>
    /\ xpc = "start"
    /\ ProxyRest
    /\ FilterOff
    /\ AllowOff
    /\ RestOff

Export ==
    /\ xpc = "start"
    /\ exported' = get_datasource_list(variant, depends)
    /\ xpc' = "done"
    /\ UNCHANGED <<depends, fvars, dsvars, akvars, restvars>>

ExportNext == Export

ExportSpec == ExportInit /\ [][ExportNext]_vars

\* C23: discovery export -- get_datasource_list(depends) returns a list that
\* holds exactly the proxy class of its module, for every value of depends.
C23_DiscoveryExport ==
    xpc = "done" => exported = <<ProxyClass(variant)>>

\* asked with [DEP_FILESYSTEM] alone, the single-lookup module exported its
\* proxy
C23_Witness ==
    /\ xpc = "done"
    /\ variant = "Multi"
    /\ depends = <<DEP_FILESYSTEM>>
    /\ exported = <<ProxyClass("Multi")>>

(***************************************************************************)
(* Line-oriented description of block removal, used to state what the      *)
(* filter is expected to produce.                                          *)
(***************************************************************************)
\* the first line of b, including its newline when it has one
RECURSIVE FirstLineLen(_, _)
FirstLineLen(b, i) ==
    IF i > Len(b) THEN Len(b)
    ELSE IF b[i] = "nl" THEN i ELSE FirstLineLen(b, i + 1)

RECURSIVE SplitLines(_)
SplitLines(b) ==
    IF b = <<>> THEN <<>>
    ELSE LET n == FirstLineLen(b, 1)
         IN  <<SubSeq(b, 1, n)>> \o SplitLines(SubSeq(b, n + 1, Len(b)))

BeginsWithMarker(line) == line # <<>> /\ line[1] = "MARK"

\* a line that ends a block: one starting with '#' (and, when needWord, with a
\* word character right after the '#')
EndsBlock(line, needWord) ==
    /\ line # <<>>
    /\ \/ line[1] = "MARK"
       \/ line[1] = "#" /\ (needWord => Len(line) >= 2 /\ line[2] = "w")

\* the lines that survive; inBlock says whether the previous line was removed
RECURSIVE KeepLines(_, _, _)
KeepLines(lines, inBlock, needWord) ==
    IF lines = <<>> THEN <<>>
    ELSE LET l == Head(lines)
         IN  IF BeginsWithMarker(l) THEN KeepLines(Tail(lines), TRUE, needWord)
             ELSE IF inBlock /\ ~EndsBlock(l, needWord)
                  THEN KeepLines(Tail(lines), TRUE, needWord)
                  ELSE l \o KeepLines(Tail(lines), FALSE, needWord)

BlocksRemoved(b, needWord) == Strip(KeepLines(SplitLines(b), FALSE, needWord))

HasMarkerLine(b) == \E l \in 1..Len(SplitLines(b)) : BeginsWithMarker(SplitLines(b)[l])

IsText(v) == v.type \in {"str", "bytes"}

(***************************************************************************)
(* Claims on the payload filter (FilterSpec)                               *)
(***************************************************************************)
\* C8: filter idempotence -- for every str or bytes payload x,
\* filter_boothooks(filter_boothooks(x)) = filter_boothooks(x).
C8_FilterIdempotent == fpc = "twice" => twice = once

\* C9: no marker survives filtering -- the output of filter_boothooks has no
\* line that begins with the marker token "#cloud-boothook".
C9_NoMarkerSurvives == fpc # "start" => ~HasMarkerLine(once.data)

\* C10 as claimed: a block runs from a marker line up to (not including) the
\* next line that starts with '#', or to end of input; the result is stripped.
C10_BlockEndsAtAnyHashLine ==
    (fpc # "start" /\ IsText(payload) /\ HasMarkerLine(payload.data))
        => once = [type |-> payload.type,
                   data |-> BlocksRemoved(payload.data, FALSE)]

\* C10 (amended): when the payload has a marker line, the result is the payload
\* with every block removed, where a block runs from a line beginning with
\* "#cloud-boothook" up to (not including) the next line that starts with '#'
\* immediately followed by a word character, or to end of input; the result is
\* stripped of leading and trailing whitespace and keeps the payload's type.
C10_BlockRemoval ==
    (fpc # "start" /\ IsText(payload) /\ HasMarkerLine(payload.data))
        => once = [type |-> payload.type,
                   data |-> BlocksRemoved(payload.data, TRUE)]

\* a marker block whose body has a '#' line that is no terminator was removed
\* and the terminating "#w" line survived
C10_Witness ==
    /\ fpc = "once"
    /\ payload = Str(<<"MARK", "#", "nl", "#", "w">>)
    /\ once = Str(<<"#", "w">>)

\* C11: filter no-op and type preservation -- filter_boothooks returns an
\* empty or None payload unchanged, returns a payload with no line beginning
\* with "#cloud-boothook" unchanged (untrimmed), and in every case returns
\* str for str input and bytes for bytes input.
C11_NoOpAndType ==
    fpc # "start" =>
        /\ Falsy(payload) => once = payload
        /\ (IsText(payload) /\ ~HasMarkerLine(payload.data)) => once = payload
        /\ once.type = payload.type
        /\ once.data \in (IF once.type = "str" THEN Seq(Alphabet)
                          ELSE Seq(ByteAlphabet))

\* a str whose marker is indented and which holds a non-ASCII character came
\* back as it was, leading blank and trailing newline included
C11_Witness ==
    /\ fpc = "once"
    /\ payload = Str(<<"sp", "MARK", "U", "nl">>)
    /\ once = payload

(***************************************************************************)
(* Claims on detection and delegation (Spec)                               *)
(***************************************************************************)
BackendNames == {map_name(k) : k \in BackendClasses}

Last(l) == l[Len(l)]

Precedes(a, b, l) ==
    /\ Contains(l, b)
    /\ \E i \in 1..Len(l) : l[i] = a /\ \A j \in 1..i : l[j] # b

\* the call in progress has run (or is running) a detection sweep
SweepRan == stage >= 1

\* the registry returns class k when asked for the dependency list d
Returns(d, k) == registry[d] # ListingFails /\ Contains(registry[d], k)

\* the current stage's map holds name n / class k
Mapped(n) == MapGet(available_sources_map, n) # NoClass
InMap(k) ==
    \E i \in 1..Len(available_sources_map) : available_sources_map[i][2] = k
ReadyName(n) ==
    Mapped(n) /\ behav[MapGet(available_sources_map, n)] = "ready"

\* get_data returned a true value and check_success was set
ReportedReady == {"get_data_true", "alarm_after_flag"}
TimedOut == {"ctor_timeout", "get_data_timeout"}

\* C1: monotonic success -- once underlying_ds_instance is set it is never
\* replaced or cleared, and no later capability call constructs or probes a
\* candidate, even when another candidate would now succeed.
C1_MonotonicSuccess ==
    [][underlying_ds_instance # NoInstance =>
          /\ underlying_ds_instance' = underlying_ds_instance
          /\ underlying_ds_name' = underlying_ds_name
          /\ Len(sweepLog') <= Len(sweepLog)
          /\ pc' \notin {"find", "try_detect", "loop", "raise"}]_vars

\* a later call on a resolved proxy, while a candidate listed before the
\* stored one and returned for the first stage would report ready
C1_Witness ==
    /\ pc = "delegate"
    /\ ~SweepRan
    /\ underlying_ds_instance # NoInstance
    /\ \E k \in BackendClasses :
          /\ k # underlying_ds_instance.kls
          /\ behav[k] = "ready"
          /\ Returns(<<DEP_FILESYSTEM>>, k)
          /\ Precedes(map_name(k), underlying_ds_name, datasource_list)

\* C2: ordering in DataSourceBootHookFilter -- within one stage, if A and B
\* are both returned by the registry for that stage, both would report ready
\* and A precedes B in datasource_list, then the stage selects A, whatever the
\* order in which the registry returned them.
C2_OrderingFilter ==
    \A A, B \in BackendNames :
        (/\ variant = "Filter"
         /\ pc \in {"stage_ret", "raise"}
         /\ A # B
         /\ ReadyName(A)
         /\ ReadyName(B)
         /\ Precedes(A, B, datasource_list))
        => /\ pc = "stage_ret"
           /\ found
           /\ underlying_ds_name = A
           /\ underlying_ds_instance.kls = MapGet(available_sources_map, A)

\* the registry returned B before A, the list names A before B, A was selected
C2_Witness ==
    /\ variant = "Filter"
    /\ pc = "stage_ret"
    /\ found
    /\ Len(available_sources_map) = 2
    /\ available_sources_map[1][1] = "B"
    /\ ReadyName("A")
    /\ ReadyName("B")
    /\ Precedes("A", "B", datasource_list)
    /\ underlying_ds_name = "A"

\* F is returned for [FILESYSTEM] only, N for [FILESYSTEM, NETWORK] only, both
\* are configured and would report ready
StageSplit(F, N) ==
    /\ Returns(<<DEP_FILESYSTEM>>, F)
    /\ ~Returns(<<DEP_FILESYSTEM, DEP_NETWORK>>, F)
    /\ ~Returns(<<DEP_FILESYSTEM>>, N)
    /\ Returns(<<DEP_FILESYSTEM, DEP_NETWORK>>, N)
    /\ Contains(datasource_list, map_name(F))
    /\ Contains(datasource_list, map_name(N))
    /\ behav[F] = "ready"
    /\ behav[N] = "ready"

\* C3: stage precedence -- if F is returned by the registry only for the first
\* stage and N only for the second, and both would report ready, the sweep
\* selects F even when N is listed before F; N is never constructed.
C3_StagePrecedence ==
    \A F, N \in BackendClasses :
        (variant = "Filter" /\ SweepRan /\ StageSplit(F, N))
        => /\ \A i \in 1..Len(sweepLog) : sweepLog[i].kls # N
           /\ pc # "raise"
           /\ pc = "delegate" =>
                 /\ underlying_ds_name = map_name(F)
                 /\ underlying_ds_instance.kls = F

\* the sweep ended on F although N is listed first
C3_Witness ==
    \E F, N \in BackendClasses :
        /\ variant = "Filter"
        /\ SweepRan
        /\ pc = "delegate"
        /\ StageSplit(F, N)
        /\ Precedes(map_name(N), map_name(F), datasource_list)
        /\ underlying_ds_name = map_name(F)

\* C4: timeout isolation -- a candidate whose construction or get_data does
\* not return before the alarm fires is never stored as the detected backend,
\* the sweep goes on to the next eligible candidate, and if that candidate
\* reports ready it is the one selected.
C4_TimeoutIsolation ==
    /\ (SweepRan /\ underlying_ds_instance # NoInstance)
          => behav[underlying_ds_instance.kls] # "hang"
    /\ \A i \in 1..Len(sweepLog) :
          sweepLog[i].path \in TimedOut
             => /\ underlying_ds_instance.serial # i
                /\ pc = "raise" => i # Len(sweepLog)
    /\ \A H, R \in BackendClasses :
          (/\ pc \in {"stage_ret", "delegate", "raise"}
           /\ SweepRan
           /\ InMap(H) /\ Contains(datasource_list, map_name(H))
           /\ InMap(R) /\ Contains(datasource_list, map_name(R))
           /\ behav[H] = "hang"
           /\ behav[R] = "ready")
          => /\ pc # "raise"
             /\ underlying_ds_name = map_name(R)
             /\ underlying_ds_instance.kls = R

\* a probe timed out and the candidate probed right after it was stored
C4_Witness ==
    /\ pc \in {"stage_ret", "delegate"}
    /\ Len(sweepLog) >= 2
    /\ sweepLog[Len(sweepLog) - 1].path \in TimedOut
    /\ sweepLog[Len(sweepLog) - 1].stage = Last(sweepLog).stage
    /\ Last(sweepLog).path = "get_data_true"
    /\ underlying_ds_instance.serial = Len(sweepLog)
    /\ underlying_ds_name = Last(sweepLog).name

\* C5: a failing probe never aborts the sweep -- whatever a candidate does,
\* and at whatever instant between arming and disarming the alarm fires, no
\* exception leaves the sweep and reaches the caller of the capability method.
C5_ProbeNeverAborts == pc # "raise" /\ ret # Raised

\* the fallback each capability call is documented to return without a backend
Fallback(c) ==
    CASE c.name = "get_data" -> PyFalse
      [] c.name = "get_userdata_raw" -> None
      [] c.name = "get_instance_id" -> PyLit("iid-proxy-unknown")
      [] c.name = "get_public_ssh_keys" -> PyEmptyList
      [] c.name = "get_locale" -> PyLit("en_US.UTF-8")
      [] c.name = "platform" -> PyLit("proxy")
      [] c.name = "subplatform" -> PyLit("filtered-proxy")
      [] c.name = "get_hostname" -> BaseHostname(c)

\* the probe paths on which the candidate was not accepted: get_data returned
\* a false value, or an exception (the timeout included) ended the try block
FailedProbe ==
    {"get_data_false", "ctor_raises", "get_data_raises", "ctor_timeout",
     "get_data_timeout", "alarm_before_flag", "alarm_in_except"}

\* C6: fallback values -- when no candidate is eligible in any stage, or every
\* probe fails, every capability call returns its fallback without raising:
\* a finished call on an unresolved proxy has returned the fallback of its
\* capability, and no sweep in which every probe failed raises to the caller.
C6_FallbackValues ==
    /\ (pc = "idle" /\ ret \notin {NoRet, Raised}
           /\ underlying_ds_instance = NoInstance)
          => ret = Fallback(cap)
    /\ ~(/\ pc = "raise"
         /\ \A i \in 1..Len(sweepLog) : sweepLog[i].path \in FailedProbe)

\* the dependency lists a variant asks the registry about
Consulted ==
    IF variant = "Filter" THEN {<<DEP_FILESYSTEM>>, <<DEP_FILESYSTEM, DEP_NETWORK>>}
    ELSE {<<DEP_FILESYSTEM, DEP_NETWORK>>}

EligibleClass(k) ==
    /\ Contains(datasource_list, map_name(k))
    /\ \E d \in Consulted : Returns(d, k)

\* C7: retry on failure -- a failed attempt leaves underlying_ds_instance and
\* underlying_ds_name both None; there is no terminal failed state: every
\* later capability call runs a fresh sweep from its start, and if an eligible
\* candidate reports ready during that sweep the proxy is resolved to it.
C7_RetryOnFailure ==
    [][/\ (underlying_ds_instance' = NoInstance) <=> (underlying_ds_name' = NoName)
       /\ (attempt_failed' /\ ~attempt_failed)
             => underlying_ds_instance' = NoInstance
       /\ (pc = "idle" /\ underlying_ds_instance = NoInstance /\ pc' # "idle")
             => pc' = "find"
       /\ (pc = "find" /\ underlying_ds_instance = NoInstance)
             => sweepLog' = <<>> /\ stage' >= 1
       /\ \A i \in 1..Len(sweepLog') :
             sweepLog'[i].path \in ReportedReady
                => /\ underlying_ds_instance' =
                          [kls |-> sweepLog'[i].kls, serial |-> i]
                   /\ underlying_ds_name' = sweepLog'[i].name
       /\ (/\ attempt_failed
           /\ pc' = "delegate"
           /\ stage' >= 1
           /\ \E k \in BackendClasses : EligibleClass(k) /\ behav[k] = "ready")
             => /\ underlying_ds_instance' # NoInstance
                /\ Last(sweepLog').path \in ReportedReady
                /\ underlying_ds_instance'.serial = Len(sweepLog')
      ]_vars

\* a call made after a failed attempt ran a sweep that resolved the proxy
C7_Witness ==
    /\ attempt_failed
    /\ SweepRan
    /\ pc = "delegate"
    /\ underlying_ds_instance # NoInstance
    /\ Last(sweepLog).path = "get_data_true"

\* C12: write-back consistency -- after get_userdata_raw returns a non-None
\* payload from a backend that has a userdata_raw attribute, the value returned
\* is the filtered backend payload and the attribute holds that same value.
C12_WriteBack ==
    [][(/\ pc = "delegate"
        /\ pc' = "idle"
        /\ cap'.name = "get_userdata_raw"
        /\ ret' # None
        /\ ExposesUserdataRaw(underlying_ds_instance.kls))
       => /\ ret' = filter_boothooks(uds_userdata_raw)
          /\ uds_userdata_raw' = ret']_vars

\* the backend held a boot hook followed by a "#w" line; the proxy returned
\* the "#w" line and the backend's attribute now holds it too
C12_Witness ==
    /\ pc = "idle"
    /\ cap.name = "get_userdata_raw"
    /\ ExposesUserdataRaw(underlying_ds_instance.kls)
    /\ fetch = "returns"
    /\ ret = Str(<<"#", "w">>)
    /\ uds_userdata_raw = ret

\* C13: fetch errors are contained -- when the proxy is resolved and the
\* backend's get_userdata_raw raises (or returns None), the proxy's
\* get_userdata_raw returns None, the stored backend and name stay as they
\* are, and the backend's userdata_raw is left unchanged.
C13_FetchErrorsContained ==
    [][(/\ pc = "delegate"
        /\ pc' = "idle"
        /\ cap'.name = "get_userdata_raw"
        /\ underlying_ds_instance # NoInstance
        /\ (fetch' = "raises" \/ uds_userdata_raw = None))
       => /\ ret' = None
          /\ UNCHANGED objvars]_vars

\* the fetch raised on a backend that holds content: None came back, the
\* backend is still stored and still holds its content
C13_Witness ==
    /\ pc = "idle"
    /\ cap.name = "get_userdata_raw"
    /\ fetch = "raises"
    /\ ret = None
    /\ underlying_ds_instance # NoInstance
    /\ underlying_ds_name = map_name(underlying_ds_instance.kls)
    /\ uds_userdata_raw # None

\* C14: signal state is not corrupted -- no step of a sweep, successful,
\* failed or timed out, changes the process-wide SIGALRM handler or removes an
\* alarm the caller had pending before the sweep.
C14_SignalState ==
    [][/\ sigalrm_handler' = sigalrm_handler
       /\ pending_alarm' = pending_alarm]_vars

\* C15: a timed-out candidate is not retried in the same sweep -- within one
\* run of _find_and_set_underlying_ds no class whose probe ended in timeout is
\* constructed or probed again, the later [FILESYSTEM, NETWORK] stage included.
C15_NoRetryAfterTimeout ==
    \A i, j \in 1..Len(sweepLog) :
        (i < j /\ sweepLog[i].path \in TimedOut)
            => sweepLog[j].kls # sweepLog[i].kls

\* the classes with a configured name (the proxy's own excluded) that the
\* registry returns for the dependency list of stage st
StageCandidates(st) ==
    {k \in BackendClasses :
        /\ Returns(datasource_depends[st], k)
        /\ map_name(k) # my_name
        /\ Contains(datasource_list, map_name(k))}

\* C16: candidate resolution -- in each stage the candidates probed are
\* exactly the configured names, minus the proxy's own, that the registry
\* returns for that stage (all of them when none reports ready); an unknown
\* name does not fail the sweep; the proxy never probes its own class.
C16_CandidateResolution ==
    /\ \A i \in 1..Len(sweepLog) :
          /\ sweepLog[i].kls \in StageCandidates(sweepLog[i].stage)
          /\ sweepLog[i].name = map_name(sweepLog[i].kls)
          /\ sweepLog[i].kls # ProxyClass(variant)
    /\ (/\ pc \in {"stage_ret", "delegate"}
        /\ SweepRan
        /\ \A i \in 1..Len(sweepLog) : sweepLog[i].path \notin ReportedReady)
          => \A k \in StageCandidates(stage) :
                \E i \in 1..Len(sweepLog) :
                    sweepLog[i].stage = stage /\ sweepLog[i].kls = k
    /\ pc = "raise" => sweepLog # <<>>

\* the first lookup raises, returns nothing, or returns unconfigured names only
NoFirstStageCandidates ==
    \A k \in BackendClasses :
        Returns(<<DEP_FILESYSTEM>>, k) => ~Contains(datasource_list, map_name(k))

\* C17: stage progress on no candidates -- when the first stage yields no
\* candidates (the registry returns nothing or unknown names only, or the
\* lookup raises) detection neither fails nor raises there but goes on to the
\* second stage; the attempt ends as a failure only after both stages have
\* produced no ready candidate.
C17_StageProgress ==
    [][/\ (variant = "Filter" /\ stage = 1 /\ NoFirstStageCandidates)
             => /\ pc \in {"try_detect", "loop", "stage_ret"}
                /\ sweepLog = <<>>
                /\ pc = "stage_ret" => ~found
       /\ (variant = "Filter" /\ pc = "stage_ret" /\ stage = 1 /\ ~found)
             => /\ pc' = "try_detect"
                /\ stage' = 2
                /\ UNCHANGED <<objvars, attempt_failed, sweepLog>>
       /\ (variant = "Filter" /\ attempt_failed' /\ ~attempt_failed
              /\ pc' = "delegate")
             => /\ stage = 2
                /\ \A i \in 1..Len(sweepLog) :
                      sweepLog[i].path \notin ReportedReady
      ]_vars

\* the first lookup raised and the second stage found a backend
C17_Witness ==
    /\ variant = "Filter"
    /\ registry[<<DEP_FILESYSTEM>>] = ListingFails
    /\ pc = "delegate"
    /\ stage = 2
    /\ underlying_ds_instance # NoInstance
    /\ Last(sweepLog).stage = 2

\* C18: first success short-circuits -- as soon as one probe reports ready
\* that candidate is stored and no further candidate is constructed or
\* probed, neither later in the same stage nor in a later stage.
C18_FirstSuccessShortCircuits ==
    \A i \in 1..Len(sweepLog) :
        sweepLog[i].path \in ReportedReady
            => /\ i = Len(sweepLog)
               /\ underlying_ds_instance = [kls |-> sweepLog[i].kls, serial |-> i]
               /\ underlying_ds_name = sweepLog[i].name
               /\ pc \in {"stage_ret", "delegate"}
               /\ pc = "stage_ret" => found

\* the first stage stored a candidate although a ready one is listed after it
\* in the same stage and the registry has candidates for the second stage
C18_Witness ==
    /\ variant = "Filter"
    /\ pc = "delegate"
    /\ stage = 1
    /\ Len(sweepLog) = 1
    /\ Last(sweepLog).path = "get_data_true"
    /\ \E k \in BackendClasses :
          /\ k # underlying_ds_instance.kls
          /\ InMap(k)
          /\ behav[k] = "ready"
          /\ Precedes(underlying_ds_name, map_name(k), datasource_list)
          /\ Returns(<<DEP_FILESYSTEM, DEP_NETWORK>>, k)

\* C19: readiness check delegation -- when the proxy is resolved get_data
\* returns what the backend's own get_data returns now; without a backend it
\* returns False.
C19_ReadinessDelegation ==
    [][(pc = "delegate" /\ pc' = "idle" /\ cap'.name = "get_data")
       => /\ underlying_ds_instance = NoInstance => ret' = PyFalse
          /\ (/\ underlying_ds_instance # NoInstance
              /\ behav[underlying_ds_instance.kls] = "ready") => ret' = PyTrue
          /\ (/\ underlying_ds_instance # NoInstance
              /\ behav[underlying_ds_instance.kls] = "false") => ret' = PyFalse
      ]_vars

Accessors ==
    {"get_instance_id", "get_public_ssh_keys", "get_locale", "platform",
     "subplatform", "get_hostname"}

\* C20: transparent delegation -- when the proxy is resolved, get_instance_id,
\* get_public_ssh_keys, get_locale, platform and subplatform return the stored
\* backend's own answer, and get_hostname returns the backend's get_hostname
\* called with the caller's fqdn and metadata_only flags.
C20_TransparentDelegation ==
    (/\ pc = "idle"
     /\ underlying_ds_instance # NoInstance
     /\ cap.name \in Accessors
     /\ ret \notin {NoRet, Raised})
    => ret = [type |-> "backend",
              data |-> <<underlying_ds_name, cap.name, cap.fqdn,
                         cap.metadata_only>>]

\* get_hostname(fqdn=True) on a proxy resolved to B gave B's answer for fqdn=True
C20_Witness ==
    /\ pc = "idle"
    /\ underlying_ds_name = "B"
    /\ cap = [name |-> "get_hostname", fqdn |-> "True", metadata_only |-> "False"]
    /\ ret = [type |-> "backend",
              data |-> <<"B", "get_hostname", "True", "False">>]

\* the entries of datasource_list, in its order, that the two-stage proxy has
\* to probe in stage st: not its own name, and returned by the registry there
PlannedNames(st) ==
    LET Due(n) ==
            /\ n # MyNameOf(variant)
            /\ \E k \in BackendClasses :
                  map_name(k) = n /\ Returns(datasource_depends[st], k)
    IN  SelectSeq(datasource_list, Due)

\* the probes of a whole sweep of the two-stage proxy, as <<stage, name>>
PlannedProbes ==
    LET Of(st) == [i \in 1..Len(PlannedNames(st)) |-> <<st, PlannedNames(st)[i]>>]
    IN  Of(1) \o Of(2)

\* how a probe can end with the exception leaving the sweep
EscapingPaths ==
    {run.path : run \in {r \in UNION {ProbeRuns(b) : b \in Behav} : r.escapes}}

\* C21: determinism -- the probes the two-stage proxy performs and the name
\* it ends with are a function of datasource_list, the registry's answers and
\* how each probe ends: the probes are a prefix of the list fixed by the
\* configuration and the registry, cut at the first probe that reports ready
\* or lets an exception out, and probes are made one at a time.
C21_Determinism ==
    /\ [](variant = "Filter" =>
            LET plan == PlannedProbes
                n == Len(sweepLog)
            IN  /\ n <= Len(plan)
                /\ \A i \in 1..n :
                      /\ <<sweepLog[i].stage, sweepLog[i].name>> = plan[i]
                      /\ map_name(sweepLog[i].kls) = sweepLog[i].name
                      /\ i < n => /\ sweepLog[i].path \notin ReportedReady
                                  /\ sweepLog[i].path \notin EscapingPaths
                /\ (pc = "delegate" /\ SweepRan) =>
                      IF n > 0 /\ sweepLog[n].path \in ReportedReady
                      THEN /\ underlying_ds_name = sweepLog[n].name
                           /\ underlying_ds_instance.kls = sweepLog[n].kls
                      ELSE /\ underlying_ds_name = NoName
                           /\ n = Len(plan)
                /\ pc = "raise" =>
                      /\ underlying_ds_name = NoName
                      /\ sweepLog[n].path \in EscapingPaths)
    /\ [][variant = "Filter" =>
            \/ sweepLog' = sweepLog
            \/ sweepLog' = <<>>
            \/ Len(sweepLog') = Len(sweepLog) + 1]_vars

\* A failed in both stages and B, returned in the second only, was selected
C21_Witness ==
    /\ variant = "Filter"
    /\ pc = "delegate"
    /\ Len(sweepLog) = 3
    /\ sweepLog[1].name = "A" /\ sweepLog[2].name = "A" /\ sweepLog[3].name = "B"
    /\ sweepLog[2].stage = 2
    /\ underlying_ds_name = "B"

\* stages x configured names other than the proxy's own
ProbeBound ==
    Len(datasource_depends)
        * Cardinality({i \in 1..Len(datasource_list) :
                          datasource_list[i] # MyNameOf(variant)})

\* the probe count of one attempt of the two-stage proxy is within ProbeBound
C22_ProbeCount == variant = "Filter" => Len(sweepLog) <= ProbeBound

\* C22: bounded sweep -- in one detection attempt of the two-stage proxy each
\* eligible candidate is probed at most once per stage, so the attempt makes
\* at most (number of stages) x (configured names other than the proxy's own)
\* probes.
C22_BoundedSweep ==
    variant = "Filter" =>
        /\ Len(sweepLog) <= ProbeBound
        /\ \A i, j \in 1..Len(sweepLog) :
              (sweepLog[i].stage = sweepLog[j].stage
               /\ sweepLog[i].kls = sweepLog[j].kls) => i = j

\* C27: ordering in DataSourceBootHookMultiFilter -- if A and B are both
\* returned by the registry, both would report ready and A precedes B in
\* datasource_list, then the proxy selects A, whatever the order in which the
\* registry returned them.
C27_OrderingMulti ==
    \A A, B \in BackendNames :
        (/\ variant = "Multi"
         /\ pc \in {"delegate", "raise"}
         /\ SweepRan
         /\ A # B
         /\ ReadyName(A)
         /\ ReadyName(B)
         /\ Precedes(A, B, datasource_list))
        => /\ pc = "delegate"
           /\ underlying_ds_name = A
           /\ underlying_ds_instance.kls = MapGet(available_sources_map, A)

\* C28: only a successfully probed instance is stored -- an instance is
\* stored only by the probe that constructed it, and only when its get_data
\* returned a true value in that probe before the timeout could cut it off; a
\* candidate whose constructor or get_data raised, timed out or returned False
\* is never stored.
C28_OnlyProbedStored ==
    /\ [](\A i \in 1..Len(sweepLog) :
             sweepLog[i].path \notin ReportedReady
                => underlying_ds_instance
                     # [kls |-> sweepLog[i].kls, serial |-> i])
    /\ []((SweepRan /\ underlying_ds_instance # NoInstance) =>
             /\ underlying_ds_instance.serial \in 1..Len(sweepLog)
             /\ sweepLog[underlying_ds_instance.serial].kls
                   = underlying_ds_instance.kls
             /\ sweepLog[underlying_ds_instance.serial].path \in ReportedReady
             /\ behav[underlying_ds_instance.kls] \in {"ready", "slow"})
    /\ [][underlying_ds_instance' # underlying_ds_instance =>
             /\ underlying_ds_instance = NoInstance
             /\ sweepLog' = Append(sweepLog, Last(sweepLog'))
             /\ Last(sweepLog').path \in ReportedReady
             /\ underlying_ds_instance'
                   = [kls |-> Last(sweepLog').kls, serial |-> Len(sweepLog')]
          ]_vars

\* B was stored by the third probe of the sweep, after A's constructor had
\* raised in both stages
C28_Witness ==
    /\ SweepRan
    /\ Len(sweepLog) = 3
    /\ sweepLog[1].path = "ctor_raises"
    /\ sweepLog[2].path = "ctor_raises"
    /\ sweepLog[3].path = "get_data_true"
    /\ underlying_ds_instance = [kls |-> <<"DataSource", "B">>, serial |-> 3]

\* C29: state consistency -- underlying_ds_instance is None exactly when
\* underlying_ds_name is None; when they are set the name is one of the
\* configured datasource_list, is not the proxy's own name and is the name
\* under which the registry returned the stored instance's class.
C29_StateConsistency ==
    /\ underlying_ds_instance = NoInstance <=> underlying_ds_name = NoName
    /\ underlying_ds_instance # NoInstance =>
          /\ Contains(datasource_list, underlying_ds_name)
          /\ underlying_ds_name # MyNameOf(variant)
          /\ map_name(underlying_ds_instance.kls) = underlying_ds_name
          /\ \E d \in Consulted : Returns(d, underlying_ds_instance.kls)

\* C30: stable repeated fetch -- on a resolved proxy whose backend's
\* get_userdata_raw returns its own userdata_raw attribute, every
\* get_userdata_raw call after the first returns the payload the first call
\* returned, and the backend's attribute does not change after the first call.
C30_StableRepeatedFetch ==
    /\ [][(/\ pc = "delegate"
           /\ pc' = "idle"
           /\ cap'.name = "get_userdata_raw"
           /\ underlying_ds_instance # NoInstance
           /\ ExposesUserdataRaw(underlying_ds_instance.kls)
           /\ fetch' = "returns"
           /\ fetched # NoRet)
          => ret' = fetched]_vars
    /\ [][(/\ underlying_ds_instance # NoInstance
           /\ ExposesUserdataRaw(underlying_ds_instance.kls)
           /\ fetched # NoRet)
          => uds_userdata_raw' = uds_userdata_raw]_vars

(***************************************************************************)
(* cloudinit/allow_keys_filter.py: AllowKeyFilter.                         *)
(***************************************************************************)
MaxItems == 1
MaxModules == 2

\* CFG_MODULE_LISTS
CFG_MODULE_LISTS ==
    {"cloud_init_modules", "cloud_config_modules", "cloud_final_modules"}

EmptyDict == CfgDict(<<>>, <<>>)

\* k in d
HasKey(d, k) == \E i \in 1..Len(d.keys) : d.keys[i] = k

\* d[k]
GetItem(d, k) == d.kids[CHOOSE i \in 1..Len(d.keys) : d.keys[i] = k]

\* d[k] = v: a key already there keeps its place
SetItem(d, k, v) ==
    IF HasKey(d, k)
    THEN CfgDict(d.keys,
                 [i \in 1..Len(d.keys) |-> IF d.keys[i] = k THEN v ELSE d.kids[i]])
    ELSE CfgDict(Append(d.keys, k), Append(d.kids, v))

\* d.update(e), from entry i of e on
RECURSIVE DictUpdate(_, _, _)
DictUpdate(d, e, i) ==
    IF i > Len(e.keys) THEN d
    ELSE DictUpdate(SetItem(d, e.keys[i], e.kids[i]), e, i + 1)

\* bool(x)
CfgTruthy(x) ==
    CASE x.tag = "str" -> x.atom # ""
      [] x.tag = "bool" -> x.atom = "True"
      [] x.tag = "list" -> x.kids # <<>>
      [] x.tag = "dict" -> x.keys # <<>>
      [] OTHER -> FALSE

\* hash(x) raises TypeError for a list and for a dict
Hashable(x) == x.tag \notin {"list", "dict"}

\* str(x): the text of a str, "None" for None; the repr of a list or a dict
\* is some text that is no key of the configurations considered
PyStrOf(x) ==
    CASE x.tag = "str" -> x.atom
      [] x.tag = "NoneType" -> "None"
      [] x.tag = "list" -> "[...]"
      [] OTHER -> "{...}"

\* util.get_cfg_option_list(yobj, key, default) of cloud-init: the list
\* configured under key, a scalar made a one-item list, None made []
get_cfg_option_list(yobj, key, default) ==
    IF ~HasKey(yobj, key) THEN default
    ELSE LET val == GetItem(yobj, key)
         IN  IF val.tag = "NoneType" THEN <<>>
             ELSE IF val.tag = "list" THEN val.kids
             ELSE <<CfgStr(PyStrOf(val))>>

\* AllowKeyFilter._load_option_list
_load_option_list(cfg_name) ==
    IF ~CfgTruthy(base_cfg) THEN <<>>
    ELSE get_cfg_option_list(base_cfg, cfg_name, <<>>)

\* a list item is never taken for a module: only str items are
_parse_module_config_str_only(item) ==
    IF item.tag = "str" THEN item ELSE CfgNone

\* AllowKeyFilter._parse_module_config
_parse_module_config(item) ==
    IF item.tag = "list"
    THEN IF Len(item.kids) > 0
         THEN IF item.kids[1].tag # "NoneType"
              THEN CfgStr(PyStrOf(item.kids[1])) ELSE CfgNone
         ELSE CfgNone
    ELSE IF item.tag = "str" THEN item
    ELSE CfgNone

\* for item in items: name = self._parse_module_config(item);
\* if name: filtered[name] = None
RECURSIVE AllowModules(_, _, _)
AllowModules(acc, items, i) ==
    IF i > Len(items) THEN acc
    ELSE LET name == _parse_module_config(items[i])
         IN  AllowModules(IF CfgTruthy(name)
                          THEN SetItem(acc, name.atom, CfgNone) ELSE acc,
                          items, i + 1)

\* AllowKeyFilter._gen_module_cfg_filter
_gen_module_cfg_filter(k, v) ==
    IF v.tag = "str"
    THEN IF v.atom = "CONFIG" \/ v.atom = "CUSTOM"
         THEN LET configured_modules == _load_option_list(k)
                  named == AllowModules(EmptyDict, configured_modules, 1)
              IN  IF v.atom = "CUSTOM" THEN SetItem(named, k, CfgNone)
                  ELSE named
         ELSE SetItem(EmptyDict, PyStrOf(v), CfgNone)
    ELSE IF v.tag = "list" THEN AllowModules(EmptyDict, v.kids, 1)
    ELSE EmptyDict

\* AllowKeyFilter._gen_other_filter
RECURSIVE _gen_other_filter(_)
RECURSIVE GenOtherDict(_, _, _)
RECURSIVE GenOtherList(_, _, _)
GenOtherDict(acc, v, i) ==
    IF i > Len(v.keys) THEN acc
    ELSE GenOtherDict(SetItem(acc, v.keys[i], _gen_other_filter(v.kids[i])),
                      v, i + 1)

GenOtherList(acc, v, i) ==
    IF i > Len(v.kids) THEN acc
    ELSE GenOtherList(SetItem(acc, PyStrOf(v.kids[i]), CfgNone), v, i + 1)

_gen_other_filter(v) ==
    IF v.tag = "dict" THEN GenOtherDict(EmptyDict, v, 1)
    ELSE IF v.tag = "list" THEN GenOtherList(EmptyDict, v, 1)
    ELSE IF v.tag # "NoneType" THEN SetItem(EmptyDict, PyStrOf(v), CfgNone)
    ELSE CfgNone

\* AllowKeyFilter._gen_key_list, from entry i of filter_cfg on
RECURSIVE GenKeyList(_, _, _)
GenKeyList(filter_dict, filter_cfg, i) ==
    IF i > Len(filter_cfg.keys) THEN filter_dict
    ELSE LET k == filter_cfg.keys[i]
             v == filter_cfg.kids[i]
         IN  GenKeyList(IF k \in CFG_MODULE_LISTS
                        THEN DictUpdate(filter_dict,
                                        _gen_module_cfg_filter(k, v), 1)
                        ELSE SetItem(filter_dict, k, _gen_other_filter(v)),
                        filter_cfg, i + 1)

_gen_key_list(filter_cfg) == GenKeyList(EmptyDict, filter_cfg, 1)

\* [item for item in v if item in subfilter]: hashing an item that is a list
\* or a dict raises TypeError
FilterItems(v, subfilter) ==
    IF \E i \in 1..Len(v.kids) : ~Hashable(v.kids[i])
    THEN CfgRaised("TypeError")
    ELSE LET Allowed(item) == item.tag = "str" /\ HasKey(subfilter, item.atom)
         IN  CfgList(SelectSeq(v.kids, Allowed))

\* AllowKeyFilter._do_filter; DoFilterLoop is its for loop from entry i on
RECURSIVE _do_filter(_, _)
RECURSIVE DoFilterLoop(_, _, _, _)
DoFilterLoop(filtered_cfg, raw, allow, i) ==
    IF i > Len(raw.keys) THEN filtered_cfg
    ELSE LET k == raw.keys[i]
             v == raw.kids[i]
         IN  IF ~HasKey(allow, k)
             THEN DoFilterLoop(filtered_cfg, raw, allow, i + 1)
             ELSE LET subfilter == GetItem(allow, k)
                      kept ==
                          IF subfilter.tag = "dict"
                          THEN IF v.tag = "dict" THEN _do_filter(v, subfilter)
                               ELSE IF v.tag = "list"
                               THEN FilterItems(v, subfilter)
                               ELSE v
                          ELSE v
                  IN  IF kept.tag = "raise" THEN kept
                      ELSE DoFilterLoop(SetItem(filtered_cfg, k, kept),
                                        raw, allow, i + 1)

_do_filter(raw, allow) ==
    IF raw.tag # "dict" THEN EmptyDict
    ELSE DoFilterLoop(EmptyDict, raw, allow, 1)

\* AllowKeyFilter._load_filter_cfg
_load_filter_cfg ==
    IF CfgTruthy(base_cfg)
    THEN IF HasKey(base_cfg, "allow_keys") THEN GetItem(base_cfg, "allow_keys")
         ELSE CfgNone
    ELSE CfgNone

\* AllowKeyFilter.filter
filter(raw) ==
    LET filter_cfg == _load_filter_cfg
    IN  IF CfgTruthy(filter_cfg)
        THEN _do_filter(raw, _gen_key_list(filter_cfg))
        ELSE raw

(***************************************************************************)
(* The methods of AllowKeyFilter applied to bounded configurations.        *)
(***************************************************************************)
\* the dict with the keys ks[i], i in S, in the order of ks, valued by f
MkDict(ks, S, f) ==
    LET In(i) == i \in S
        at == SelectSeq([i \in 1..Len(ks) |-> i], In)
    IN  CfgDict([j \in 1..Len(at) |-> ks[at[j]]], [j \in 1..Len(at) |-> f[at[j]]])

\* every dict with keys among ks and values in V
DictsOver(ks, V) ==
    UNION {{MkDict(ks, S, f) : f \in [S -> V]} : S \in SUBSET (1..Len(ks))}

\* every list of up to n items of I
ListsOver(I, n) == UNION {{CfgList(l) : l \in [1..k -> I]} : k \in 0..n}

\* user configuration: a scalar, a list of keys (an item may itself be a
\* list), or one more level of the same
RawItems == {CfgStr("all"), CfgList(<<>>)}
RawLeaves == {CfgStr("x")} \cup ListsOver(RawItems, MaxItems)
RawValues == RawLeaves \cup DictsOver(<<"all", "init">>, RawLeaves)

\* an allow entry: None (the whole value) or a sub-filter
AllowEntries == {CfgNone} \cup DictsOver(<<"all", "init">>, {CfgNone})

\* the items of a module list: a name, a [name, frequency] pair, and the
\* items no module name can be read from
ModuleItems ==
    {CfgStr("ntp"), CfgStr(""),
     CfgList(<<CfgStr("ssh"), CfgStr("always")>>),
     CfgList(<<>>), CfgList(<<CfgNone>>), EmptyDict}

\* the value of an entry of 'allow_keys' for a module list
ModuleFilters ==
    {CfgStr("CONFIG"), CfgStr("CUSTOM"), CfgStr("ntp"), CfgNone}
    \cup ListsOver(ModuleItems, MaxModules)

\* what the base configuration holds under a module list key
ConfiguredModules ==
    {CfgNone, CfgStr("ntp")} \cup ListsOver(ModuleItems, MaxModules)

\* the 'allow_keys' sections and base configurations filter is applied with
AllowSections ==
    DictsOver(<<"cloud_final_modules", "output">>,
              {CfgStr("CONFIG"), CfgStr("CUSTOM"),
               CfgList(<<CfgStr("ntp")>>), CfgList(<<CfgStr("all")>>),
               EmptyDict})

\* no base configuration, one without 'allow_keys', one with a None or a dict
\* 'allow_keys' and with or without its own list of final modules
FilterBases ==
    {CfgNone, EmptyDict,
     CfgDict(<<"cloud_final_modules">>, <<CfgList(<<CfgStr("ntp")>>)>>)}
    \cup {CfgDict(<<"allow_keys">>, <<sec>>) : sec \in AllowSections \cup {CfgNone}}
    \cup {CfgDict(<<"allow_keys", "cloud_final_modules">>,
                  <<sec, CfgList(<<CfgStr("ntp")>>)>>) :
             sec \in AllowSections \cup {CfgNone}}

FilterRawValues ==
    {CfgStr("x"), CfgList(<<CfgStr("all")>>), CfgList(<<CfgList(<<>>)>>),
     CfgDict(<<"all", "init">>, <<CfgStr("x"), CfgStr("x")>>)}

AllowInit ==
    /\ \/ /\ akpc = "_do_filter"
          /\ base_cfg = CfgNone
          /\ raw_cfg \in DictsOver(<<"output", "runcmd">>, RawValues)
          /\ allow_keys \in DictsOver(<<"output", "runcmd">>, AllowEntries)
          /\ cfg_key = ""
          /\ cfg_value = CfgNone
       \/ /\ akpc = "_gen_module_cfg_filter"
          /\ cfg_key \in CFG_MODULE_LISTS
          /\ cfg_value \in ModuleFilters
          /\ base_cfg \in {CfgNone}
                \cup DictsOver(<<"cloud_final_modules">>, ConfiguredModules)
          /\ raw_cfg = CfgNone
          /\ allow_keys = CfgNone
       \/ /\ akpc = "filter"
          /\ base_cfg \in FilterBases
          /\ raw_cfg \in DictsOver(<<"cloud_final_modules", "ntp", "output",
                                     "runcmd">>, FilterRawValues)
          /\ allow_keys = CfgNone
          /\ cfg_key = ""
          /\ cfg_value = CfgNone
    /\ filtered = CfgPending
    /\ ProxyOff
    /\ FilterOff
    /\ ExportOff
    /\ RestOff

\* self._do_filter(raw_cfg, allow_keys)
DoFilter ==
    /\ akpc = "_do_filter"
    /\ filtered = CfgPending
    /\ filtered' = _do_filter(raw_cfg, allow_keys)
    /\ UNCHANGED <<base_cfg, raw_cfg, allow_keys, cfg_key, cfg_value, akpc,
                   fvars, dsvars, xvars, restvars>>

\* self._gen_module_cfg_filter(cfg_key, cfg_value)
GenModuleCfgFilter ==
    /\ akpc = "_gen_module_cfg_filter"
    /\ filtered = CfgPending
    /\ filtered' = _gen_module_cfg_filter(cfg_key, cfg_value)
    /\ UNCHANGED <<base_cfg, raw_cfg, allow_keys, cfg_key, cfg_value, akpc,
                   fvars, dsvars, xvars, restvars>>

\* self.filter(raw_cfg)
Filter ==
    /\ akpc = "filter"
    /\ filtered = CfgPending
    /\ filtered' = filter(raw_cfg)
    /\ UNCHANGED <<base_cfg, raw_cfg, allow_keys, cfg_key, cfg_value, akpc,
                   fvars, dsvars, xvars, restvars>>

AllowNext == DoFilter \/ GenModuleCfgFilter \/ Filter

AllowSpec == AllowInit /\ [][AllowNext]_vars

\* the keys of a dict, as a set
KeySet(d) == {d.keys[i] : i \in 1..Len(d.keys)}

\* what the claim asks of the result res of filtering raw with allow: a dict
\* with the keys of raw that allow holds, a whole value under a None entry,
\* a value filtered the same way where the entry and the value are dicts
RECURSIVE FilteredBy(_, _, _)
FilteredBy(res, raw, allow) ==
    /\ res.tag = "dict"
    /\ KeySet(res) = KeySet(raw) \cap KeySet(allow)
    /\ \A k \in KeySet(res) :
          /\ GetItem(allow, k) = CfgNone => GetItem(res, k) = GetItem(raw, k)
          /\ (GetItem(allow, k).tag = "dict" /\ GetItem(raw, k).tag = "dict")
                => FilteredBy(GetItem(res, k), GetItem(raw, k), GetItem(allow, k))

\* C24: _do_filter returns a new dict whose keys are exactly the keys of
\* raw_cfg that allow_keys holds; under a None entry the whole value is kept,
\* under a dict entry a dict value is filtered recursively, and a key absent
\* from allow_keys is dropped at every level.
C24_DoFilter ==
    (akpc = "_do_filter" /\ filtered # CfgPending)
        => FilteredBy(filtered, raw_cfg, allow_keys)

\* no value of raw_cfg filtered by a sub-filter is a list with an item that
\* cannot be hashed
RECURSIVE ItemsHashable(_, _)
ItemsHashable(raw, allow) ==
    \A k \in KeySet(raw) \cap KeySet(allow) :
        LET v == GetItem(raw, k)
            subfilter == GetItem(allow, k)
        IN  subfilter.tag = "dict" =>
               /\ v.tag = "list" => \A i \in 1..Len(v.kids) : Hashable(v.kids[i])
               /\ v.tag = "dict" => ItemsHashable(v, subfilter)

\* C24 for configurations whose filtered lists hold hashable items only
C24_DoFilterHashable ==
    (akpc = "_do_filter" /\ filtered # CfgPending
     /\ ItemsHashable(raw_cfg, allow_keys))
        => FilteredBy(filtered, raw_cfg, allow_keys)

\* the module name the claim reads from an item of a module list
HasName(item) ==
    \/ item.tag = "str"
    \/ item.tag = "list" /\ Len(item.kids) > 0 /\ item.kids[1].tag = "str"

NameOf(item) == IF item.tag = "str" THEN item.atom ELSE item.kids[1].atom

NamesOf(items) ==
    {NameOf(items[i]) : i \in {j \in 1..Len(items) : HasName(items[j])}}

\* the module list configured under cfg_key in the base configuration
ConfiguredUnder(k) ==
    IF base_cfg.tag = "dict" /\ HasKey(base_cfg, k)
    THEN LET val == GetItem(base_cfg, k)
         IN  IF val.tag = "list" THEN val.kids
             ELSE IF val.tag = "str" THEN <<val>> ELSE <<>>
    ELSE <<>>

\* the names the claim expects as keys of the allow-set
ExpectedModules ==
    IF cfg_value = CfgStr("CONFIG") THEN NamesOf(ConfiguredUnder(cfg_key))
    ELSE IF cfg_value = CfgStr("CUSTOM")
    THEN NamesOf(ConfiguredUnder(cfg_key)) \cup {cfg_key}
    ELSE NamesOf(cfg_value.kids)

GenModuleReturned ==
    /\ akpc = "_gen_module_cfg_filter"
    /\ filtered # CfgPending
    /\ cfg_value.tag = "list" \/ cfg_value \in {CfgStr("CONFIG"), CfgStr("CUSTOM")}

\* C25 as stated: _gen_module_cfg_filter(key, value) yields an allow-set
\* whose keys are, for "CONFIG", exactly the module names configured under
\* key in the base configuration; for "CUSTOM", those names and key itself;
\* for a list, exactly the module name of each item (a str item names itself,
\* a list item is named by its first element).
C25_ModuleNamesAll ==
    GenModuleReturned =>
        /\ filtered.tag = "dict"
        /\ KeySet(filtered) = ExpectedModules

\* C25: the same, where an item whose name is the empty string is skipped
\* (and the keys of the allow-set all map to None).
C25_ModuleNames ==
    GenModuleReturned =>
        /\ filtered.tag = "dict"
        /\ KeySet(filtered) = ExpectedModules \ {""}
        /\ \A i \in 1..Len(filtered.kids) : filtered.kids[i] = CfgNone

\* "CUSTOM" for cloud_final_modules, configured as [["ssh", "always"], "ntp"]:
\* the allow-set holds ssh, ntp and cloud_final_modules
C25_Witness ==
    /\ akpc = "_gen_module_cfg_filter"
    /\ cfg_key = "cloud_final_modules"
    /\ cfg_value = CfgStr("CUSTOM")
    /\ base_cfg = CfgDict(<<"cloud_final_modules">>,
                          <<CfgList(<<CfgList(<<CfgStr("ssh"), CfgStr("always")>>),
                                      CfgStr("ntp")>>)>>)
    /\ filtered # CfgPending
    /\ KeySet(filtered) = {"ssh", "ntp", "cloud_final_modules"}

\* the base configuration has a non-empty 'allow_keys' section
HasAllowKeys ==
    /\ base_cfg.tag = "dict"
    /\ HasKey(base_cfg, "allow_keys")
    /\ GetItem(base_cfg, "allow_keys").tag = "dict"
    /\ GetItem(base_cfg, "allow_keys").keys # <<>>

\* C26: filter returns raw_cfg unmodified when the base configuration has no
\* or an empty 'allow_keys' section; otherwise it returns a dict with only the
\* top-level keys of raw_cfg that the allow-list derived from 'allow_keys'
\* permits; raw_cfg itself is not mutated.
C26_Filter ==
    /\ [](akpc = "filter" /\ filtered # CfgPending =>
            IF ~HasAllowKeys THEN filtered = raw_cfg
            ELSE /\ filtered.tag = "dict"
                 /\ KeySet(filtered)
                       = KeySet(raw_cfg)
                            \cap KeySet(_gen_key_list(
                                            GetItem(base_cfg, "allow_keys")))
                 /\ "runcmd" \notin KeySet(filtered))
    /\ [][akpc = "filter" => raw_cfg' = raw_cfg]_vars

\* C26 for configurations whose filtered lists hold hashable items only
C26_FilterHashable ==
    (akpc = "filter" /\ filtered # CfgPending /\ HasAllowKeys
     /\ ItemsHashable(raw_cfg, _gen_key_list(GetItem(base_cfg, "allow_keys"))))
        => /\ filtered.tag = "dict"
           /\ KeySet(filtered)
                 = KeySet(raw_cfg)
                      \cap KeySet(_gen_key_list(GetItem(base_cfg, "allow_keys")))


(***************************************************************************)
(* The two proxies compared: DataSourceBootHookFilter (two stages, list    *)
(* order) against DataSourceBootHookMultiFilter (one lookup).              *)
(***************************************************************************)

\* every backend answers the same way whenever it is probed: get_data
\* returns True or returns False, well within the deadline
SteadyBackends == \A k \in BackendClasses : behav[k] \in {"ready", "false"}

\* the name DataSourceBootHookFilter ends a detection attempt with, as a
\* function of datasource_list, the registry and the backends' answers: the
\* first planned probe whose class reports ready, None when there is none
TwoStageName ==
    LET plan == PlannedProbes
        Kls(p) == MapGet(BuildMap(registry[datasource_depends[p[1]]], <<>>), p[2])
        hits == {i \in 1..Len(plan) : behav[Kls(plan[i])] = "ready"}
    IN  IF hits = {} THEN NoName
        ELSE plan[CHOOSE i \in hits : \A j \in hits : i <= j][2]

\* C31: variant equivalence -- for the same datasource_list, the same
\* registry and the same backend behaviour, the two-stage proxy and the
\* single-lookup proxy end a detection attempt with the same detected backend
\* name, or both with none: whichever proxy ran, the name it ends with is the
\* one the two-stage sweep selects on these inputs.
C31_VariantEquivalence ==
    (pc = "delegate" /\ SweepRan /\ SteadyBackends)
        => underlying_ds_name = TwoStageName

\* the two-stage proxy alone ends with the name of the two-stage sweep
C31_FilterAgrees == variant = "Filter" => C31_VariantEquivalence


(***************************************************************************)
(* The config modules cc_whitelist_filter and cc_standard_key_validator:   *)
(* handle(name, cfg, cloud, ...) edits the dict cfg in place.              *)
(***************************************************************************)

\* the longest allowed_keys list considered
MaxAllowed == 2

\* the module lists only, datasource_list left to the whitelist
FORBIDDEN_KEYS_modules_only ==
    {"cloud_init_modules", "cloud_config_modules", "cloud_final_modules"}

FORBIDDEN_KEYS ==
    {"cloud_init_modules", "cloud_config_modules", "cloud_final_modules",
     "datasource_list"}

MODULE_CONFIG_KEY == "cc_whitelist_filter"

WHITELIST_KEY == "allowed_keys"

\* str.lower(), on the texts the configurations considered are made of
lower(s) ==
    CASE s = "Hostname" -> "hostname"
      [] s = "Datasource_List" -> "datasource_list"
      [] s = "None" -> "none"
      [] OTHER -> s

\* del d[k]
DelItem(d, k) ==
    LET Keep(i) == d.keys[i] # k
        at == SelectSeq([i \in 1..Len(d.keys) |-> i], Keep)
    IN  CfgDict([j \in 1..Len(at) |-> d.keys[at[j]]],
                [j \in 1..Len(at) |-> d.kids[at[j]]])

\* util.get_cfg_by_path(yobj, (key,), default) of cloud-init: yobj[key] when
\* the key is there, whatever its value, else default
get_cfg_by_path(yobj, key, default) ==
    IF HasKey(yobj, key) THEN GetItem(yobj, key) ELSE default

\* the set allowed_keys built from module_cfg.get(WHITELIST_KEY)
allowed_keys(allowed_keys_cfg) ==
    IF allowed_keys_cfg.tag = "NoneType" THEN {}
    ELSE IF allowed_keys_cfg.tag # "list" THEN {}
    ELSE {lower(PyStrOf(allowed_keys_cfg.kids[i])) :
             i \in 1..Len(allowed_keys_cfg.kids)}

\* for key in keys_to_check, from entry i on
RECURSIVE WhitelistLoop(_, _, _, _)
WhitelistLoop(d, keys_to_check, i, allowed) ==
    IF i > Len(keys_to_check) THEN d
    ELSE LET key == keys_to_check[i]
             key_lower == lower(key)
         IN  IF key_lower \in FORBIDDEN_KEYS
             THEN WhitelistLoop(DelItem(d, key), keys_to_check, i + 1, allowed)
             ELSE IF key_lower \notin allowed
             THEN WhitelistLoop(DelItem(d, key), keys_to_check, i + 1, allowed)
             ELSE WhitelistLoop(d, keys_to_check, i + 1, allowed)

\* cc_whitelist_filter.handle: cfg as it is left and how the call ends;
\* module_cfg.get raises AttributeError when the module's configuration is
\* no dict
cc_whitelist_filter_handle(c, cloud) ==
    LET module_cfg == get_cfg_by_path(cloud, MODULE_CONFIG_KEY, EmptyDict)
    IN  IF module_cfg.tag # "dict"
        THEN [cfg |-> c, ends |-> "AttributeError"]
        ELSE LET allowed_keys_cfg ==
                     IF HasKey(module_cfg, WHITELIST_KEY)
                     THEN GetItem(module_cfg, WHITELIST_KEY) ELSE CfgNone
             IN  [cfg |-> WhitelistLoop(c, c.keys, 1, allowed_keys(allowed_keys_cfg)),
                  ends |-> "returned"]

\* the keys of user-data and the items of allowed_keys considered
UserKeys ==
    <<"hostname", "Hostname", "runcmd", "datasource_list", "Datasource_List",
      "cloud_final_modules", "none">>
AllowedItems ==
    {CfgStr("hostname"), CfgStr("Hostname"), CfgStr("runcmd"),
     CfgStr("datasource_list"), CfgNone}

\* what the system configuration holds under allowed_keys: a list, None, or
\* a value that is no list
WhitelistValues ==
    ListsOver(AllowedItems, MaxAllowed)
        \cup {CfgNone, CfgStr("hostname"), MkDict(<<"hostname">>, {1}, <<CfgNone>>)}

\* cloud.cfg: without the module's section, with a section that is no dict,
\* with a section without or with allowed_keys
WhitelistCloudCfgs ==
    {EmptyDict}
        \cup {CfgDict(<<MODULE_CONFIG_KEY>>, <<m>>) :
                 m \in {CfgNone, CfgStr("hostname"), EmptyDict}}
        \cup {CfgDict(<<MODULE_CONFIG_KEY>>, <<CfgDict(<<WHITELIST_KEY>>, <<w>>)>>) :
                 w \in WhitelistValues}

\* the longest write_files list considered
MaxFiles == 2

\* is_hostname_safe(hostname)
is_hostname_safe(hostname) == hostname.tag = "str" /\ hostname.atom # ""

\* str.startswith, on the paths and the two prefixes considered
startswith(s, prefix) ==
    <<s, prefix>> \in {<<"/etc/myappliance/a", "/etc/myappliance/">>,
                       <<"/tmp/x", "/tmp/">>}

\* is_write_safe(file_entry, log): "True", "False", or the exception that
\* path.startswith raises when path is no str
is_write_safe(file_entry) ==
    IF file_entry.tag # "dict" \/ ~HasKey(file_entry, "path") THEN "False"
    ELSE LET path == GetItem(file_entry, "path")
         IN  IF path.tag # "str" THEN "AttributeError"
             ELSE IF ~(startswith(path.atom, "/etc/myappliance/")
                       \/ startswith(path.atom, "/tmp/"))
             THEN "False"
             ELSE "True"

\* for file_entry in original_files, from entry i on; the warning about an
\* unsafe entry calls file_entry.get, which only a dict has
RECURSIVE WriteFilesLoop(_, _, _, _)
WriteFilesLoop(original_files, i, safe_files, unsafe_found) ==
    IF i > Len(original_files)
    THEN [safe_files |-> safe_files, unsafe_found |-> unsafe_found,
          ends |-> "returned"]
    ELSE LET file_entry == original_files[i]
             safe == is_write_safe(file_entry)
         IN  IF safe = "True"
             THEN WriteFilesLoop(original_files, i + 1,
                                 Append(safe_files, file_entry), unsafe_found)
             ELSE IF safe = "False" /\ file_entry.tag = "dict"
             THEN WriteFilesLoop(original_files, i + 1, safe_files, TRUE)
             ELSE [safe_files |-> safe_files, unsafe_found |-> TRUE,
                   ends |-> "AttributeError"]

\* the hostname part of handle
ValidateHostname(c) ==
    IF HasKey(c, "hostname") /\ ~is_hostname_safe(GetItem(c, "hostname"))
    THEN DelItem(c, "hostname") ELSE c

\* the write_files part of handle: cfg as it is left and how the part ends
ValidateWriteFiles(c) ==
    IF ~HasKey(c, "write_files") THEN [cfg |-> c, ends |-> "returned"]
    ELSE LET original_files == GetItem(c, "write_files")
             r == IF original_files.tag = "list"
                  THEN WriteFilesLoop(original_files.kids, 1, <<>>, FALSE)
                  ELSE [safe_files |-> <<>>, unsafe_found |-> TRUE,
                        ends |-> "returned"]
         IN  IF r.ends # "returned" THEN [cfg |-> c, ends |-> r.ends]
             ELSE IF ~r.unsafe_found THEN [cfg |-> c, ends |-> "returned"]
             ELSE IF r.safe_files # <<>>
             THEN [cfg |-> SetItem(c, "write_files", CfgList(r.safe_files)),
                   ends |-> "returned"]
             ELSE [cfg |-> DelItem(c, "write_files"), ends |-> "returned"]

\* cc_standard_key_validator.handle: cfg as it is left and how the call ends
cc_standard_key_validator_handle(c) ==
    LET w == ValidateWriteFiles(ValidateHostname(c))
    IN  IF w.ends # "returned" THEN w
        ELSE [cfg |-> IF HasKey(w.cfg, "runcmd") THEN DelItem(w.cfg, "runcmd")
                      ELSE w.cfg,
              ends |-> "returned"]

\* user-data for the validator: hostname, write_files and runcmd, each
\* possibly missing
Hostnames == {CfgStr("h"), CfgStr(""), CfgNone, CfgList(<<CfgStr("h")>>)}
FileEntries ==
    {CfgDict(<<"path">>, <<p>>) :
        p \in {CfgStr("/etc/myappliance/a"), CfgStr("/tmp/x"),
               CfgStr("/etc/passwd"), CfgNone}}
        \cup {EmptyDict, CfgStr("/tmp/x"), CfgNone}
WriteFilesValues ==
    ListsOver(FileEntries, MaxFiles)
        \cup {CfgNone, CfgStr("/tmp/x"), CfgDict(<<"path">>, <<CfgStr("/tmp/x")>>)}
ValidatorCfgs ==
    UNION {{MkDict(<<"hostname", "write_files", "runcmd">>, S,
                   <<h, w, CfgList(<<CfgStr("ls")>>)>>) :
               h \in Hostnames, w \in WriteFilesValues} : S \in SUBSET (1..3)}

\* cc_standard_key_validator.handle is about to run on some user-data
ValidatorInit ==
    /\ mpc = "cc_standard_key_validator"
    /\ cloud_cfg = EmptyDict
    /\ cfg \in ValidatorCfgs

\* cc_whitelist_filter.handle is about to run on some user-data
WhitelistInit ==
    /\ mpc = "cc_whitelist_filter"
    /\ cloud_cfg \in WhitelistCloudCfgs
    /\ cfg \in DictsOver(UserKeys, {CfgStr("x")})

ModulesInit ==
    /\ (WhitelistInit \/ ValidatorInit)
    /\ cfg_before = cfg
    /\ mresult = "pending"
    /\ ProxyOff
    /\ FilterOff
    /\ ExportOff
    /\ AllowOff
    /\ HandlerOff

WhitelistHandle ==
    /\ mpc = "cc_whitelist_filter"
    /\ mresult = "pending"
    /\ LET r == cc_whitelist_filter_handle(cfg, cloud_cfg)
       IN  /\ cfg' = r.cfg
           /\ mresult' = r.ends
    /\ UNCHANGED <<cloud_cfg, cfg_before, mpc, fvars, dsvars, xvars, akvars, hvars>>

ValidatorHandle ==
    /\ mpc = "cc_standard_key_validator"
    /\ mresult = "pending"
    /\ LET r == cc_standard_key_validator_handle(cfg)
       IN  /\ cfg' = r.cfg
           /\ mresult' = r.ends
    /\ UNCHANGED <<cloud_cfg, cfg_before, mpc, fvars, dsvars, xvars, akvars, hvars>>

ModulesNext == WhitelistHandle \/ ValidatorHandle

ModulesSpec == ModulesInit /\ [][ModulesNext]_vars

\* the whitelist the system configuration defines, if it defines a list
WhitelistCfg ==
    IF /\ HasKey(cloud_cfg, MODULE_CONFIG_KEY)
       /\ GetItem(cloud_cfg, MODULE_CONFIG_KEY).tag = "dict"
       /\ HasKey(GetItem(cloud_cfg, MODULE_CONFIG_KEY), WHITELIST_KEY)
    THEN GetItem(GetItem(cloud_cfg, MODULE_CONFIG_KEY), WHITELIST_KEY)
    ELSE CfgNone

\* name, lower-cased, is an item of the whitelist (items compared as
\* lower-cased text)
Whitelisted(name) ==
    /\ WhitelistCfg.tag = "list"
    /\ \E i \in 1..Len(WhitelistCfg.kids) :
          lower(PyStrOf(WhitelistCfg.kids[i])) = lower(name)

WhitelistReturned == mpc = "cc_whitelist_filter" /\ mresult = "returned"

\* C32: cc_whitelist_filter.handle -- after it returns, cfg contains no key
\* whose lower-cased name is cloud_init_modules, cloud_config_modules,
\* cloud_final_modules or datasource_list, even if that key is listed in the
\* allowed_keys whitelist, and every remaining key's lower-cased name is in
\* the whitelist; when the whitelist is missing or is not a list, cfg is
\* left with no keys.
C32_WhitelistFilter ==
    WhitelistReturned =>
        /\ \A i \in 1..Len(cfg.keys) :
              /\ lower(cfg.keys[i]) \notin
                    {"cloud_init_modules", "cloud_config_modules",
                     "cloud_final_modules", "datasource_list"}
              /\ Whitelisted(cfg.keys[i])
        /\ WhitelistCfg.tag # "list" => cfg.keys = <<>>

\* Datasource_List, whitelisted as datasource_list, was removed while the
\* whitelisted Hostname was kept
C32_Witness ==
    /\ WhitelistReturned
    /\ HasKey(cfg_before, "Datasource_List")
    /\ Whitelisted("Datasource_List")
    /\ ~HasKey(cfg, "Datasource_List")
    /\ HasKey(cfg, "Hostname")
    /\ HasKey(cfg_before, "runcmd")
    /\ ~HasKey(cfg, "runcmd")

\* with allowed_keys a str every key was removed
C32_WitnessNoList ==
    /\ WhitelistReturned
    /\ WhitelistCfg.tag = "str"
    /\ cfg_before.keys # <<>>
    /\ cfg.keys = <<>>


\* an entry of write_files the validator must keep: a dict whose path
\* starts with /etc/myappliance/ or /tmp/
SafeEntry(e) ==
    /\ e.tag = "dict"
    /\ HasKey(e, "path")
    /\ GetItem(e, "path").tag = "str"
    /\ \/ startswith(GetItem(e, "path").atom, "/etc/myappliance/")
       \/ startswith(GetItem(e, "path").atom, "/tmp/")

\* what the validator guarantees about cfg once handle is over
Validated ==
    /\ ~HasKey(cfg, "runcmd")
    /\ HasKey(cfg, "hostname") =>
          /\ GetItem(cfg, "hostname").tag = "str"
          /\ GetItem(cfg, "hostname").atom # ""
    /\ HasKey(cfg, "write_files") =>
          /\ GetItem(cfg, "write_files").tag = "list"
          /\ \A i \in 1..Len(GetItem(cfg, "write_files").kids) :
                SafeEntry(GetItem(cfg, "write_files").kids[i])
          /\ HasKey(cfg_before, "write_files")
          /\ GetItem(cfg_before, "write_files").tag = "list"
          /\ GetItem(cfg, "write_files").kids
                = SelectSeq(GetItem(cfg_before, "write_files").kids, SafeEntry)

\* C33: cc_standard_key_validator.handle -- for any cfg, handle returns
\* normally and afterwards runcmd is absent from cfg, hostname is absent
\* unless it is a non-empty string, and write_files is either absent or a
\* list in which every entry is a dict whose path starts with
\* /etc/myappliance/ or /tmp/; every entry failing is_write_safe, including
\* an entry that is not a dict, is removed, and a non-list write_files is
\* removed entirely.
C33_StandardKeyValidator ==
    (mpc = "cc_standard_key_validator" /\ mresult # "pending")
        => /\ mresult = "returned"
           /\ Validated

\* whenever handle does return, cfg is validated
C33_WhenReturned ==
    (mpc = "cc_standard_key_validator" /\ mresult = "returned") => Validated

\* an entry of write_files that is no dict made handle raise, runcmd still
\* in cfg
C33_Raised ==
    /\ mpc = "cc_standard_key_validator"
    /\ mresult = "AttributeError"
    /\ \E i \in 1..Len(GetItem(cfg_before, "write_files").kids) :
          GetItem(cfg_before, "write_files").kids[i].tag = "str"
    /\ HasKey(cfg, "runcmd")


(***************************************************************************)
(* BootHookPartHandler (handlers/boot_hook.py): handle_part writes the     *)
(* part under boothook_dir and executes it.  Texts are sequences of        *)
(* symbols: "MARK" is the prefix #cloud-boothook, "cr" and "nl" the line   *)
(* ends, "sp" a blank, "/" the path separator.                             *)
(***************************************************************************)

\* handlers.CONTENT_SIGNALS of cloud-init
CONTENT_SIGNALS == {"__begin__", "__end__"}

\* prefixes[0]
BoothookPrefix == <<"MARK">>

\* paths.get_ipath("boothooks")
boothook_dir == <<"boothooks">>

\* util.clean_filename of cloud-init: the separator becomes "_", a character
\* that is no letter, digit or one of _-.() is dropped
RECURSIVE clean_filename(_)
clean_filename(fn) ==
    IF fn = <<>> THEN <<>>
    ELSE (CASE Head(fn) = "/" -> <<"_">>
            [] Head(fn) \in {";", "sp"} -> <<>>
            [] OTHER -> <<Head(fn)>>) \o clean_filename(Tail(fn))

\* contents.replace("\r\n", "\n")
RECURSIVE ReplaceCrNl(_)
ReplaceCrNl(t) ==
    IF t = <<>> THEN <<>>
    ELSE IF Len(t) >= 2 /\ t[1] = "cr" /\ t[2] = "nl"
    THEN <<"nl">> \o ReplaceCrNl(Tail(Tail(t)))
    ELSE <<Head(t)>> \o ReplaceCrNl(Tail(t))

\* util.dos2unix of cloud-init: line ends are converted only when the first
\* line ends in \r\n
dos2unix(contents) ==
    LET nls == {i \in 1..Len(contents) : contents[i] = "nl"}
        pos == IF nls = {} THEN 0 ELSE CHOOSE i \in nls : \A j \in nls : i <= j
    IN  IF pos <= 1 \/ contents[pos - 1] # "cr" THEN contents
        ELSE ReplaceCrNl(contents)

\* util.strip_prefix_suffix(line, prefix=prefix)
strip_prefix_suffix(line, prefix) ==
    IF Len(line) >= Len(prefix) /\ SubSeq(line, 1, Len(prefix)) = prefix
    THEN SubSeq(line, Len(prefix) + 1, Len(line))
    ELSE line

\* str.lstrip()
RECURSIVE lstrip(_)
lstrip(t) ==
    IF t # <<>> /\ Head(t) \in {"sp", "nl", "cr"} THEN lstrip(Tail(t)) ELSE t

\* one call the handler makes to the outside: util.write_file(filepath,
\* contents, 0o700) or subp.subp([filepath], update_env=env), and the
\* exception it raised ("" when it returned)
WriteFileCall(filepath, contents, raised) ==
    [op |-> "write_file", filepath |-> filepath, contents |-> contents,
     mode |-> "0o700", env |-> <<>>, raised |-> raised]
SubpCall(filepath, env, raised) ==
    [op |-> "subp", filepath |-> filepath, contents |-> <<>>, mode |-> "",
     env |-> env, raised |-> raised]

\* _write_part(payload, filename): the file it writes and the path it returns
WritePartPath(fname) == boothook_dir \o <<"/">> \o clean_filename(fname)
WritePartContents(payload_arg) ==
    lstrip(strip_prefix_suffix(dos2unix(payload_arg), BoothookPrefix))

\* __init__: self.instance_id
BootHookInstanceId(ds) ==
    IF ds.present THEN ds.get_instance_id ELSE CfgNone

\* the handler never disabled
_is_enabled_always == CfgBool(TRUE)

\* _is_enabled()
_is_enabled ==
    IF datasource.present /\ datasource.has_sys_cfg
    THEN LET handler_cfg ==
                 IF HasKey(datasource.sys_cfg, "handlers")
                 THEN GetItem(datasource.sys_cfg, "handlers") ELSE EmptyDict
         IN  IF CfgTruthy(handler_cfg)
             THEN IF HasKey(handler_cfg, "boothook_enabled")
                  THEN GetItem(handler_cfg, "boothook_enabled")
                  ELSE CfgBool(TRUE)
             ELSE CfgBool(TRUE)
    ELSE CfgBool(TRUE)

\* the env handed to the script
BoothookEnv ==
    IF CfgTruthy(instance_id)
    THEN << <<"INSTANCE_ID", PyStrOf(instance_id)>> >>
    ELSE <<>>

\* what handlers.boothook_enabled is set to, and the handlers section
EnabledValues ==
    {CfgBool(TRUE), CfgBool(FALSE), CfgNone, CfgStr(""), CfgStr("false"),
     CfgList(<<>>)}
HandlersSections ==
    {CfgNone, EmptyDict, CfgDict(<<"other">>, <<CfgStr("x")>>)}
        \cup {CfgDict(<<"boothook_enabled">>, <<v>>) : v \in EnabledValues}

\* sys_cfg of the datasource: without or with a handlers section
SysCfgs ==
    {EmptyDict} \cup {CfgDict(<<"handlers">>, <<h>>) : h \in HandlersSections}

\* the datasource handed to the handler: None, an object without sys_cfg,
\* or one with it
Datasources ==
    {NoDatasource}
        \cup {[present |-> TRUE, has_sys_cfg |-> FALSE, sys_cfg |-> CfgNone,
               get_instance_id |-> i] : i \in {CfgNone, CfgStr("i-1")}}
        \cup {[present |-> TRUE, has_sys_cfg |-> TRUE, sys_cfg |-> c,
               get_instance_id |-> i] :
                 c \in SysCfgs, i \in {CfgNone, CfgStr("i-1")}}

PartTypes == CONTENT_SIGNALS \cup {"text/cloud-boothook"}
PartNames == {<<"p">>, <<"p", "/", "p">>, <<";", "p">>}
PartPayloads ==
    {<<"MARK", "nl", "w">>, <<"MARK", "cr", "nl", "w", "cr", "nl">>,
     <<"sp", "w">>}

\* a handler built on some datasource is about to be handed a part
HandlerInit ==
    /\ datasource \in Datasources
    /\ instance_id = BootHookInstanceId(datasource)
    /\ ctype \in PartTypes
    /\ filename \in PartNames
    /\ part \in PartPayloads
    /\ hlog = <<>>
    /\ hresult = "pending"
    /\ ProxyOff
    /\ FilterOff
    /\ ExportOff
    /\ AllowOff
    /\ ModulesOff

\* handle_part(data, ctype, filename, payload, frequency); wrote is how
\* util.write_file ends and ran how subp.subp ends
HandlePart ==
    /\ hresult = "pending"
    /\ IF ctype \in CONTENT_SIGNALS
       THEN hlog' = hlog /\ hresult' = "returned"
       ELSE IF ~CfgTruthy(_is_enabled)
       THEN hlog' = hlog /\ hresult' = "returned"
       ELSE \E wrote \in {"", "OSError"} :
               LET filepath == WritePartPath(filename)
                   w == WriteFileCall(filepath, WritePartContents(part), wrote)
               IN  IF wrote # ""
                   THEN hlog' = Append(hlog, w) /\ hresult' = wrote
                   ELSE \E ran \in {"", "ProcessExecutionError", "Exception"} :
                           /\ hlog' = hlog \o <<w, SubpCall(filepath, BoothookEnv, ran)>>
                           /\ hresult' = "returned"
    /\ UNCHANGED <<datasource, instance_id, ctype, filename, part,
                   fvars, dsvars, xvars, akvars, mvars>>

HandlerNext == HandlePart

HandlerSpec == HandlerInit /\ [][HandlerNext]_vars

\* handle_part is over
PartHandled == hresult \notin {"off", "pending"}

\* the part is a content signal
ContentSignal == ctype \in {"__begin__", "__end__"}

\* the datasource's sys_cfg has handlers.boothook_enabled set to a false value
SetDisabled ==
    /\ datasource.present
    /\ datasource.has_sys_cfg
    /\ HasKey(datasource.sys_cfg, "handlers")
    /\ GetItem(datasource.sys_cfg, "handlers").tag = "dict"
    /\ HasKey(GetItem(datasource.sys_cfg, "handlers"), "boothook_enabled")
    /\ ~CfgTruthy(GetItem(GetItem(datasource.sys_cfg, "handlers"),
                          "boothook_enabled"))

C34_WitnessDisabled ==
    /\ PartHandled
    /\ ~ContentSignal
    /\ SetDisabled
    /\ hlog = <<>>

\* a content signal with the handler enabled -- nothing written
C34_WitnessSignal ==
    /\ PartHandled
    /\ ContentSignal
    /\ ~SetDisabled
    /\ hlog = <<>>

====
